---- MODULE Spec2Model ----
(***************************************************************************)
(* The scene editor of the Konva canvas component (InfiniteCanvas):        *)
(* the ordered object list, the selection, the clipboard and the linear    *)
(* action history with undo and redo, driven by the component's event      *)
(* handlers.                                                               *)
(*                                                                         *)
(* Every action below is one event handler run to completion.  A handler   *)
(* reads the state captured by its closure at the last render; functional  *)
(* updaters (setX(prev => ...)) compose in call order, plain setters       *)
(* (setHistory(v)) keep the last value written.                            *)
(***************************************************************************)
EXTENDS Integers, Sequences, FiniteSets, TLC

VARIABLES
    canvasObjects,   \* the scene: sequence of object records (array order)
    selectedIds,     \* sequence of selected object ids
    clipboard,       \* sequence of copied object records
    history,         \* sequence of recorded actions
    historyIndex,    \* index (0-based, -1 = nothing to undo) of the last applied action
    snapToGrid,      \* snap mode flag
    node,            \* the graphics node under an active transformer gesture, or NoNode
    isTransforming,  \* isTransforming.current
    nextId,          \* number of object ids generated so far
    steps,           \* number of events handled so far
    lastOp,          \* the last handler that ran, with what it touched (observation only)
    isPanning,            \* isPanning.current
    lastPointerPosition,  \* lastPointerPosition.current
    isMultiSelectMode,    \* a marquee is being drawn
    selectionStart,       \* <<world point where the marquee started>>, <<>> for null
    selectionRect,        \* <<the marquee rectangle in world coordinates>>, <<>> for null
    canvas,          \* the canvas component that is mounted
    scale,           \* zoom of the Konva canvases, in thousandths
    stagePos,        \* pan offset of the Konva canvases, in pixels
    zoom,            \* zoom of the DOM canvas, in thousandths
    position,        \* pan offset of the DOM canvas, in pixels
    pinchDistance,   \* data-initial-pinch-distance of the DOM canvas, 0 when unset
    pointer,         \* where the pointer was at the last wheel, pinch or mouse event
    call,            \* the last call of a utility function, with its result
    visibleObjects,  \* the memoized visibleObjects: what the last render that
                     \* recomputed it drew, lowest first
    pendingLoads,    \* image decodes of an upload that have not completed, each
                     \* with the history, index and scene length its closure captured
    images,          \* DOM canvas: the images prop (array order)
    isDragging,      \* DOM canvas: the canvas is being panned
    dragStart,       \* DOM canvas: client position of the last pan event
    draggedImage,    \* DOM canvas: id of the image being dragged, 0 for null
    dragImageOffset, \* DOM canvas: grab point relative to the image's corner
    resizingImage,   \* DOM canvas: id of the image being resized, 0 for null
    resizeHandle,    \* DOM canvas: the handle being dragged, "none" for null
    resizeStart,     \* DOM canvas: client position and image size at the grab
    rotatingImage,   \* DOM canvas: id of the image being rotated, 0 for null
    rotateStart,     \* DOM canvas: pointer angle at the grab, in degrees
    gestureStart,    \* DOM canvas: images and position before the last mouse down
                     \* (observation only)
    ctxDrawn,        \* DOM canvas: ids drawn on the export canvas, in draw order
    pendingDraws,    \* DOM canvas: images of an export whose onload has not fired
    exported,        \* DOM canvas: <<what the export canvas held at toDataURL>>,
                     \* <<>> before an export
    rowImgs,         \* Konva canvas: the images (imgs state)
    undoStack,       \* HistoryStack: undoStack
    redoStack,       \* HistoryStack: redoStack
    currentState,    \* the state the caller of the HistoryStack holds
    returned,        \* <<what the last undo() or redo() returned>>, <<>> for null
    stackLog         \* the calls made on the HistoryStack (observation only)

sceneVars == <<canvasObjects, selectedIds, clipboard, history, historyIndex,
               snapToGrid, node, isTransforming, nextId, pendingLoads,
               visibleObjects>>

stageVars == <<isPanning, lastPointerPosition, isMultiSelectMode, selectionStart,
               selectionRect>>

viewVars == <<canvas, scale, stagePos, zoom, position, pinchDistance, pointer>>

domVars == <<images, isDragging, dragStart, draggedImage, dragImageOffset,
             resizingImage, resizeHandle, resizeStart, rotatingImage, rotateStart,
             gestureStart, ctxDrawn, pendingDraws, exported>>

utilVars == <<rowImgs, undoStack, redoStack, currentState, returned, stackLog>>

vars == <<canvasObjects, selectedIds, clipboard, history, historyIndex,
          snapToGrid, node, isTransforming, nextId, steps, lastOp,
          isPanning, lastPointerPosition, isMultiSelectMode, selectionStart,
          selectionRect, canvas, scale, stagePos, zoom, position, pinchDistance,
          pointer, call, pendingLoads, images, isDragging, dragStart, draggedImage,
          dragImageOffset, resizingImage, resizeHandle, resizeStart, rotatingImage,
          rotateStart, gestureStart, ctxDrawn, pendingDraws, exported, visibleObjects,
          rowImgs, undoStack, redoStack, currentState, returned, stackLog>>

-----------------------------------------------------------------------------
(* Bounds of the model *)

MaxSteps == 6        \* events handled in one behaviour
MaxIds == 4          \* object ids ever generated
MaxHistory == 3      \* longest history explored
MaxSize == 400       \* largest width/height explored
MaxWheelSteps == 18  \* wheel events handled by the Konva canvas in one behaviour
MaxViewSteps == 7    \* wheel, pinch and button events handled by the other canvases
MaxCoord == 60       \* largest coordinate handed to a snap function
MaxDomSteps == 5     \* events handled by the DOM canvas in one behaviour
MaxImages == 2       \* images added to the DOM canvas

(* Program constants *)

GRID_SIZE == 50
MIN_SIZE == 5
PASTE_OFFSET == 20
IMAGE_LAYOUT_GAP_X == 40
IMAGE_LAYOUT_GAP_Y == 40
IMAGES_PER_ROW_LAYOUT == 5
DEFAULT_LAYOUT_IMAGE_WIDTH == 150
DEFAULT_LAYOUT_IMAGE_HEIGHT == 150
LAYOUT_START == 10

\* the value read from an absent optional property (rotation?: number)
Undefined == -1000

-----------------------------------------------------------------------------
(* Generic helpers on sequences *)

Range(s) == {s[i] : i \in 1..Len(s)}

Ids(objs) == {objs[i].id : i \in 1..Len(objs)}

IdSeq(objs) == [i \in 1..Len(objs) |-> objs[i].id]

\* a filter that drops the last object when none of the ids is in the scene
WithoutIds_DropLast(objs, gone) ==
    IF Ids(objs) \cap gone = {} /\ objs # <<>>
    THEN SubSeq(objs, 1, Len(objs) - 1)
    ELSE SelectSeq(objs, LAMBDA o : o.id \notin gone)

\* prev.filter(obj => !(obj.id in gone))
WithoutIds(objs, gone) == SelectSeq(objs, LAMBDA o : o.id \notin gone)

\* prev.filter(id => !(id in gone))
SelWithoutIds(sel, gone) == SelectSeq(sel, LAMBDA i : i \notin gone)

\* canvasObjects.find(obj => obj.id === id): the first object with that id
FindObj(objs, id) ==
    objs[CHOOSE i \in 1..Len(objs) :
            /\ objs[i].id = id
            /\ \A j \in 1..(i - 1) : objs[j].id # id]

MaxOf(S) == CHOOSE m \in S : \A n \in S : n <= m

-----------------------------------------------------------------------------
(* Objects and property updates *)

UpdateKeys == {"x", "y", "width", "height", "rotation", "zIndex"}

NoProps == [k \in {} |-> 0]

safeUpdateObject(obj, newProps) ==
    [k \in DOMAIN obj \cup DOMAIN newProps |->
        IF k = "type" THEN obj.type
        ELSE IF k \in DOMAIN newProps THEN newProps[k] ELSE obj[k]]

\* prev.map(obj => obj.id === id ? safeUpdateObject(obj, props) : obj)
MapUpdate(objs, id, props) ==
    [i \in 1..Len(objs) |->
        IF objs[i].id = id THEN safeUpdateObject(objs[i], props) ELSE objs[i]]

\* Math.round(v / GRID_SIZE) * GRID_SIZE; Math.round rounds halves up
SnapCoord(v) == ((2 * v + GRID_SIZE) \div (2 * GRID_SIZE)) * GRID_SIZE

\* URLImage.doSnap: the guard tests the snapToGrid *prop*, which is the
\* function performGridSnap and therefore always truthy
doSnap(pos) == [x |-> SnapCoord(pos.x), y |-> SnapCoord(pos.y)]

-----------------------------------------------------------------------------
(* Stable sorts *)

\* [...s].sort((a, b) => keys(a) - keys(b)), a stable sort: keys[i] is the
\* sort key of s[i]; equal keys keep their order
StableSort(s, keys) ==
    LET rank(i) == Cardinality({j \in 1..Len(s) :
                        \/ keys[j] < keys[i]
                        \/ keys[j] = keys[i] /\ j < i}) + 1
    IN [r \in 1..Len(s) |-> s[CHOOSE i \in 1..Len(s) : rank(i) = r]]

\* new Map(objectIds.map((id, index) => [id, index])).get(id) ?? Infinity:
\* the last index of id in objectIds; an id that is absent sorts after all
OrderOf(objectIds, id) ==
    IF id \in Range(objectIds)
    THEN MaxOf({i \in 1..Len(objectIds) : objectIds[i] = id})
    ELSE Len(objectIds) + 1

ReorderObjects(objs, objectIds) ==
    StableSort(objs, [i \in 1..Len(objs) |-> OrderOf(objectIds, objs[i].id)])

-----------------------------------------------------------------------------
(* Viewport culling *)

RoundDiv(a, b) == (2 * a + b) \div (2 * b)

CULLING_BUFFER == 200

\* stage.width() and stage.height(): window.innerWidth and window.innerHeight
VIEWPORT_WIDTH == 800
VIEWPORT_HEIGHT == 600

\* visibleBounds after updateVisibleBounds ran for the rendered stagePos and
\* scale: the effect that calls it runs after every render that changed them
visibleBounds ==
    [minX |-> RoundDiv((0 - stagePos.x) * 1000, scale) - CULLING_BUFFER,
     minY |-> RoundDiv((0 - stagePos.y) * 1000, scale) - CULLING_BUFFER,
     maxX |-> RoundDiv((VIEWPORT_WIDTH - stagePos.x) * 1000, scale) + CULLING_BUFFER,
     maxY |-> RoundDiv((VIEWPORT_HEIGHT - stagePos.y) * 1000, scale) + CULLING_BUFFER]

isObjectVisible(obj, bounds) ==
    /\ obj.x + obj.width >= bounds.minX
    /\ obj.x <= bounds.maxX
    /\ obj.y + obj.height >= bounds.minY
    /\ obj.y <= bounds.maxY

\* canvasObjects.filter(isObjectVisible).sort((a, b) => a.zIndex - b.zIndex)
FilterVisible(objs, bounds) ==
    LET kept == SelectSeq(objs, LAMBDA o : isObjectVisible(o, bounds))
    IN StableSort(kept, [i \in 1..Len(kept) |-> kept[i].zIndex])

\* useMemo(..., [canvasObjects, isObjectVisible]): isObjectVisible never
\* changes (its dependency visibleBounds is mutated in place), so
\* visibleObjects is recomputed only by a render that follows a
\* setCanvasObjects; set: the handler called setCanvasObjects
Rerendered(set) ==
    visibleObjects' = IF set THEN FilterVisible(canvasObjects', visibleBounds)
                      ELSE visibleObjects

-----------------------------------------------------------------------------
(* Actions of the history (ActionType) *)

AddAction(obj) == [type |-> "add", object |-> obj]

RemoveAction(id) == [type |-> "remove", objectId |-> id]

UpdateAction(id, prevProps, newProps) ==
    [type |-> "update", objectId |-> id, prevProps |-> prevProps, newProps |-> newProps]

ReorderAction(ids) == [type |-> "reorder", objectIds |-> ids]

\* a batch action that keeps the first object only
AddBatchAction_First(objs) == [type |-> "add_batch", objects |-> SubSeq(objs, 1, 1)]

AddBatchAction(objs) == [type |-> "add_batch", objects |-> objs]

(* executeAction, the scene updater it queues *)
ApplyAction(objs, action) ==
    CASE action.type = "add" -> Append(objs, action.object)
      [] action.type = "remove" -> WithoutIds(objs, {action.objectId})
      [] action.type = "update" -> MapUpdate(objs, action.objectId, action.newProps)
      [] action.type = "reorder" -> ReorderObjects(objs, action.objectIds)
      [] action.type = "add_batch" -> objs \o action.objects

(* executeAction, the selection updater it queues *)
ApplyActionSel(sel, action) ==
    IF action.type = "remove" THEN SelWithoutIds(sel, {action.objectId}) ELSE sel

(* executeAction, newHistory: the history captured by the closure, cut after
   the captured index, with the action appended *)
NewHistory(h, idx, action) == Append(SubSeq(h, 1, idx + 1), action)

RECURSIVE ApplyAll(_, _)
\* the scene after the updaters of several executeAction calls ran in order
ApplyAll(objs, actions) ==
    IF actions = <<>> THEN objs
    ELSE ApplyAll(ApplyAction(objs, Head(actions)), Tail(actions))

RECURSIVE ApplyAllSel(_, _)
ApplyAllSel(sel, actions) ==
    IF actions = <<>> THEN sel
    ELSE ApplyAllSel(ApplyActionSel(sel, Head(actions)), Tail(actions))

\* a history that keeps the undone actions below the recorded one
HistoryAfter_NoCut(h, idx, actions) ==
    IF actions = <<>> THEN h
    ELSE Append(h, actions[Len(actions)])

\* The history after a handler called executeAction once per element of
\* actions: every call computes newHistory from the same captured history and
\* index, and setHistory keeps the value of the last call
HistoryAfter(h, idx, actions) ==
    IF actions = <<>> THEN h
    ELSE NewHistory(h, idx, actions[Len(actions)])

\* an index that counts every call of the handler
IndexAfter_Stale(h, idx, actions) == idx + Len(actions)

\* setHistoryIndex(newHistory.length - 1) of the last call
IndexAfter(h, idx, actions) ==
    IF actions = <<>> THEN idx
    ELSE Len(NewHistory(h, idx, actions[Len(actions)])) - 1

-----------------------------------------------------------------------------
(* undo *)

\* history.slice(0, historyIndex + 1).find(act => act.type === 'add' &&
\* act.object.id === objectId): position of the first such action, 0 if none
AddActionIndex(h, idx, objectId) ==
    LET hits == {i \in 1..(idx + 1) : h[i].type = "add" /\ h[i].object.id = objectId}
    IN IF hits = {} THEN 0 ELSE CHOOSE i \in hits : \A j \in hits : i <= j

RECURSIVE ReplayUpdates(_, _, _, _, _)
\* relevantUpdateActions.reduce(safeUpdateObject(acc, a.newProps), initialObject)
\* over the update actions of objectId at positions from..to of the history
ReplayUpdates(acc, h, from, to, objectId) ==
    IF from > to THEN acc
    ELSE ReplayUpdates(
            IF h[from].type = "update" /\ h[from].objectId = objectId
            THEN safeUpdateObject(acc, h[from].newProps) ELSE acc,
            h, from + 1, to, objectId)

\* case 'remove': the object rebuilt from the history, appended to the scene
\* when an add action of that id is found
RestoreRemoved(objs, h, idx, objectId) ==
    LET addAt == AddActionIndex(h, idx, objectId)
    IN IF addAt = 0 THEN objs
       ELSE Append(objs, ReplayUpdates(h[addAt].object, h, addAt + 1, idx, objectId))

\* undo whose case 'add' forgets to filter the object out
UndoObjects_AddKept(objs, h, idx) ==
    LET a == h[idx + 1]
    IN CASE a.type = "add" -> objs
         [] a.type = "remove" ->
               MapUpdate(RestoreRemoved(objs, h, idx, a.objectId), a.objectId, NoProps)
         [] a.type = "update" -> MapUpdate(objs, a.objectId, a.prevProps)
         [] a.type = "reorder" -> objs
         [] a.type = "add_batch" -> WithoutIds(objs, Ids(a.objects))

UndoObjects(objs, h, idx) ==
    LET a == h[idx + 1]
    IN CASE a.type = "add" -> WithoutIds(objs, {a.object.id})
         \* no break after case 'remove': control falls into case 'update',
         \* where prevProps is undefined and the spread changes nothing
         [] a.type = "remove" ->
               MapUpdate(RestoreRemoved(objs, h, idx, a.objectId), a.objectId, NoProps)
         [] a.type = "update" -> MapUpdate(objs, a.objectId, a.prevProps)
         [] a.type = "reorder" -> objs
         [] a.type = "add_batch" -> WithoutIds(objs, Ids(a.objects))

\* undo that leaves the selection alone
UndoSelection_Kept(sel, h, idx) == sel

UndoSelection(sel, h, idx) ==
    LET a == h[idx + 1]
    IN CASE a.type = "add" -> SelWithoutIds(sel, {a.object.id})
         [] a.type = "add_batch" -> SelWithoutIds(sel, Ids(a.objects))
         [] OTHER -> sel

(* redo *)
RedoObjects(objs, h, idx) == ApplyAction(objs, h[idx + 2])

RedoSelection(sel, h, idx) == ApplyActionSel(sel, h[idx + 2])

-----------------------------------------------------------------------------
(* updateMultipleObjects and handleObjectUpdate *)

\* a comparison that takes every key of attrs as changed
ChangedKeys_All(obj, attrs) == DOMAIN attrs

\* the keys of attrs whose value differs from the object's (!==)
ChangedKeys(obj, attrs) == {k \in DOMAIN attrs : obj[k] # attrs[k]}

\* newObjects.findIndex(obj => obj.id === id), 0 when absent
FindIndex(objs, id) ==
    LET hits == {i \in 1..Len(objs) : objs[i].id = id}
    IN IF hits = {} THEN 0 ELSE CHOOSE i \in hits : \A j \in hits : i <= j

\* one iteration of updates.forEach: the object list after it
UpdateOne(objs, id, attrs) ==
    LET i == FindIndex(objs, id)
    IN IF i > 0 /\ ChangedKeys(objs[i], attrs) # {}
       THEN [objs EXCEPT ![i] = safeUpdateObject(objs[i], attrs)]
       ELSE objs

\* payloads pushed whether or not the update is to be saved
PayloadOf_Saved(objs, id, attrs, save) ==
    LET i == FindIndex(objs, id)
        changed == IF i > 0 THEN ChangedKeys(objs[i], attrs) ELSE {}
    IN IF changed # {}
       THEN <<UpdateAction(id, [k \in changed |-> objs[i][k]],
                               [k \in changed |-> attrs[k]])>>
       ELSE <<>>

\* one iteration of updates.forEach: the history payloads it pushes
PayloadOf(objs, id, attrs, save) ==
    LET i == FindIndex(objs, id)
        changed == IF i > 0 THEN ChangedKeys(objs[i], attrs) ELSE {}
    IN IF save /\ changed # {}
       THEN <<UpdateAction(id, [k \in changed |-> objs[i][k]],
                               [k \in changed |-> attrs[k]])>>
       ELSE <<>>

RECURSIVE UpdatedObjects(_, _)
\* newObjects returned by the updater of updateMultipleObjects;
\* updates is a sequence of [id, attrs]
UpdatedObjects(objs, updates) ==
    IF updates = <<>> THEN objs
    ELSE UpdatedObjects(UpdateOne(objs, Head(updates).id, Head(updates).attrs),
                        Tail(updates))

RECURSIVE UpdatePayloads(_, _, _)
\* historyActionPayloads of updateMultipleObjects
UpdatePayloads(objs, updates, save) ==
    IF updates = <<>> THEN <<>>
    ELSE PayloadOf(objs, Head(updates).id, Head(updates).attrs, save)
         \o UpdatePayloads(UpdateOne(objs, Head(updates).id, Head(updates).attrs),
                           Tail(updates), save)

\* handleObjectUpdate(objectId, changedProps, saveHistory): one call of
\* updateMultipleObjects with the single update, when changedProps has a
\* common key
ObjectUpdate(objectId, changedProps) ==
    LET safeAttrs == [k \in DOMAIN changedProps \cap UpdateKeys |-> changedProps[k]]
    IN IF DOMAIN safeAttrs = {} THEN <<>>
       ELSE <<[id |-> objectId, attrs |-> safeAttrs]>>

-----------------------------------------------------------------------------
(* Observation of the last handler *)

NoNode ==
    [id |-> 0, kind |-> "none", x |-> 0, y |-> 0, scaleX |-> 1, scaleY |-> 1,
     rotation |-> 0, start |-> <<>>]

\* op: the handler; ids: the ids it created, removed or moved; before: the
\* scene before it (for a gesture: at gesture start); rec: it recorded an
\* action; cut: the number of undone actions the recording discarded;
\* base, n, u: the scene before the current run of committed gestures, the
\* length of the run and the number of undos that followed it
Op(name, ids, before) ==
    [op |-> name, ids |-> ids, before |-> before,
     rec |-> (history' # history \/ historyIndex' # historyIndex),
     cut |-> IF history' # history \/ historyIndex' # historyIndex
             THEN Len(history) - (historyIndex + 1) ELSE 0,
     base |-> <<>>, n |-> 0, u |-> 0]

\* a gesture step inside a run of gestures keeps the run
GestureOp(name, ids, before) ==
    IF lastOp.n > 0 /\ lastOp.u = 0
    THEN [Op(name, ids, before) EXCEPT !.base = lastOp.base, !.n = lastOp.n]
    ELSE Op(name, ids, before)

\* the release of a gesture that started from scene start and left scene now
CommitOp(name, ids, start, now) ==
    IF now = start THEN GestureOp(name, ids, start)
    ELSE IF lastOp.n > 0 /\ lastOp.u = 0
    THEN [Op(name, ids, start) EXCEPT !.base = lastOp.base, !.n = lastOp.n + 1]
    ELSE [Op(name, ids, start) EXCEPT !.base = start, !.n = 1]

\* undo and redo record nothing; an undo that follows a run of gestures
\* counts against it
UndoOp(before) ==
    IF lastOp.n > lastOp.u
    THEN [op |-> "undo", ids |-> <<>>, before |-> before, rec |-> FALSE, cut |-> 0,
          base |-> lastOp.base, n |-> lastOp.n, u |-> lastOp.u + 1]
    ELSE [op |-> "undo", ids |-> <<>>, before |-> before, rec |-> FALSE, cut |-> 0,
          base |-> <<>>, n |-> 0, u |-> 0]

RedoOp(before) ==
    [op |-> "redo", ids |-> <<>>, before |-> before, rec |-> FALSE, cut |-> 0,
     base |-> <<>>, n |-> 0, u |-> 0]

-----------------------------------------------------------------------------
(* Inputs *)

ShapeTypes == {"text"}

\* world positions at which a dragged or transformed node is released
DragTargets == {[x |-> 10, y |-> 20], [x |-> 30, y |-> 30]}

\* what one pointer move of the transformer leaves on the node: a new
\* position (dx, dy from the gesture start), the scale factors (a negative
\* factor is a flipped node) and the rotation
TransformInputs ==
    { [dx |-> 0, dy |-> 0, scale |-> <<2, 2>>, rotation |-> 0],      \* bottom-right handle
      [dx |-> 10, dy |-> 20, scale |-> <<2, 1>>, rotation |-> 0],    \* top-left handle
      [dx |-> 0, dy |-> 0, scale |-> <<-1, 1>>, rotation |-> 0],     \* dragged past the edge
      [dx |-> 30, dy |-> 30, scale |-> <<1, 1>>, rotation |-> 90] }  \* rotate handle

\* number of urls handed to addImagesInLayout
BatchSizes == {2}

Idle == node = NoNode

\* neither a pan nor a marquee is in progress on the stage
StageIdle == ~isPanning /\ ~isMultiSelectMode

\* one more event is handled
Step == steps < MaxSteps /\ steps' = steps + 1

CanRecord == historyIndex + 2 <= MaxHistory

-----------------------------------------------------------------------------
(* Object creation *)

\* the Add Text / Add Rectangle buttons
NewShape(type, id, z) ==
    IF type = "text"
    THEN [id |-> id, type |-> "text", x |-> 0, y |-> 0, width |-> 100, height |-> 30,
          rotation |-> Undefined, zIndex |-> z]
    ELSE [id |-> id, type |-> "rectangle", x |-> 0, y |-> 0, width |-> 150, height |-> 100,
          rotation |-> Undefined, zIndex |-> z]

\* highestZIndex of addImagesInLayout
HighestZIndex(objs) ==
    IF Len(objs) > 0 THEN MaxOf({objs[i].zIndex : i \in 1..Len(objs)}) ELSE -1

\* the index-th (0-based) image of addImagesInLayout
LayoutImage(id, index, highest) ==
    [id |-> id, type |-> "image",
     x |-> LAYOUT_START
           + (index % IMAGES_PER_ROW_LAYOUT) * (DEFAULT_LAYOUT_IMAGE_WIDTH + IMAGE_LAYOUT_GAP_X),
     y |-> LAYOUT_START
           + (index \div IMAGES_PER_ROW_LAYOUT) * (DEFAULT_LAYOUT_IMAGE_HEIGHT + IMAGE_LAYOUT_GAP_Y),
     width |-> DEFAULT_LAYOUT_IMAGE_WIDTH, height |-> DEFAULT_LAYOUT_IMAGE_HEIGHT,
     rotation |-> 0, zIndex |-> highest + 1 + index]

\* the pasted copy of a clipboard item
PastedItem(item, id) ==
    [item EXCEPT !.id = id, !.x = item.x + PASTE_OFFSET, !.y = item.y + PASTE_OFFSET]

RECURSIVE PasteIdChoices(_, _, _)
\* The ids `${type}-${Date.now()}-${Math.floor(Math.random() * 1000)}` of one
\* paste: an id is new unless an earlier item of the same type pasted by the
\* same key press drew the same random number in the same millisecond
PasteIdChoices(items, fresh, acc) ==
    IF Len(acc) = Len(items) THEN {acc}
    ELSE LET i == Len(acc) + 1
             same == {acc[j] : j \in {j \in 1..Len(acc) : items[j].type = items[i].type}}
         IN PasteIdChoices(items, fresh + 1, Append(acc, fresh + 1))
            \cup UNION {PasteIdChoices(items, fresh, Append(acc, c)) : c \in same}

-----------------------------------------------------------------------------
(* Handlers: adding objects *)

\* onClick of the Add Text / Add Rectangle buttons
AddShape(type) ==
    /\ Step
    /\ StageIdle /\ UNCHANGED <<stageVars, viewVars, domVars, pendingLoads, call, utilVars>>
    /\ Idle /\ CanRecord /\ nextId < MaxIds
    /\ LET obj == NewShape(type, nextId + 1, Len(canvasObjects) + 1)
           actions == <<AddAction(obj)>>
       IN /\ canvasObjects' = ApplyAll(canvasObjects, actions)
          /\ selectedIds' = ApplyAllSel(selectedIds, actions)
          /\ history' = HistoryAfter(history, historyIndex, actions)
          /\ historyIndex' = IndexAfter(history, historyIndex, actions)
          /\ lastOp' = Op("add", <<obj.id>>, canvasObjects)
    /\ nextId' = nextId + 1
    /\ UNCHANGED <<clipboard, snapToGrid, node, isTransforming>>
    /\ Rerendered(TRUE)

addImagesInLayout(count) ==
    /\ Step
    /\ StageIdle /\ UNCHANGED <<stageVars, viewVars, domVars, pendingLoads, call, utilVars>>
    /\ Idle /\ CanRecord /\ nextId + count <= MaxIds
    /\ LET highest == HighestZIndex(canvasObjects)
           objs == [i \in 1..count |-> LayoutImage(nextId + i, i - 1, highest)]
           actions == <<AddBatchAction(objs)>>
       IN /\ canvasObjects' = ApplyAll(canvasObjects, actions)
          /\ selectedIds' = ApplyAllSel(selectedIds, actions)
          /\ history' = HistoryAfter(history, historyIndex, actions)
          /\ historyIndex' = IndexAfter(history, historyIndex, actions)
          /\ lastOp' = Op("add_batch", IdSeq(objs), canvasObjects)
    /\ nextId' = nextId + count
    /\ UNCHANGED <<clipboard, snapToGrid, node, isTransforming>>
    /\ Rerendered(TRUE)

\* number of files picked in the upload dialog
UploadSizes == {2}

UPLOAD_WIDTH == 200

\* newImage of the upload's img.onload, for a square picture: no rotation
\* property, zIndex from the scene length its closure captured
UploadedImage(id, capturedLength) ==
    [id |-> id, type |-> "image", x |-> 0, y |-> 0, width |-> UPLOAD_WIDTH,
     height |-> UPLOAD_WIDTH, rotation |-> Undefined, zIndex |-> capturedLength + 1]

\* onChange of the upload input: one FileReader and one Image decode per
\* file; their callbacks keep the executeAction and canvasObjects of this render
uploadOnChange(count) ==
    /\ Step
    /\ StageIdle /\ UNCHANGED <<stageVars, viewVars, domVars, call, utilVars>>
    /\ Idle /\ Len(pendingLoads) + count <= MaxIds - nextId
    /\ pendingLoads' = pendingLoads \o
            [i \in 1..count |-> [history |-> history, historyIndex |-> historyIndex,
                                 length |-> Len(canvasObjects)]]
    /\ UNCHANGED <<canvasObjects, selectedIds, clipboard, history, historyIndex,
                   snapToGrid, node, isTransforming, nextId>>
    /\ lastOp' = Op("upload", <<>>, canvasObjects)
    /\ Rerendered(FALSE)

\* the history and index that the executeAction of a pending decode reads
ClosureHistory(load) == [history |-> load.history, historyIndex |-> load.historyIndex]

\* img.onload of the i-th pending decode: executeAction({type: 'add', ...})
\* of the render that started the upload
uploadImageLoaded(i) ==
    /\ Step
    /\ StageIdle /\ UNCHANGED <<stageVars, viewVars, domVars, call, utilVars>>
    /\ Idle /\ i \in 1..Len(pendingLoads) /\ nextId < MaxIds
    /\ LET load == pendingLoads[i]
           seen == ClosureHistory(load)
           obj == UploadedImage(nextId + 1, load.length)
           actions == <<AddAction(obj)>>
       IN /\ seen.historyIndex + 2 <= MaxHistory
          /\ canvasObjects' = ApplyAll(canvasObjects, actions)
          /\ selectedIds' = ApplyAllSel(selectedIds, actions)
          /\ history' = HistoryAfter(seen.history, seen.historyIndex, actions)
          /\ historyIndex' = IndexAfter(seen.history, seen.historyIndex, actions)
          /\ lastOp' = Op("imageLoaded", <<obj.id>>, canvasObjects)
    /\ nextId' = nextId + 1
    /\ pendingLoads' = SubSeq(pendingLoads, 1, i - 1)
                        \o SubSeq(pendingLoads, i + 1, Len(pendingLoads))
    /\ UNCHANGED <<clipboard, snapToGrid, node, isTransforming>>
    /\ Rerendered(TRUE)

-----------------------------------------------------------------------------
(* Handlers: selection and clipboard *)

\* a modifier click that only ever adds the id
ToggleSelection_AddOnly(sel, id) == Append(sel, id)

\* the updater of the Shift branch and of the Ctrl/Cmd branch of handleSelect:
\* prev.includes(id) ? prev.filter(i => i !== id) : [...prev, id]
ToggleSelection(sel, id) ==
    IF id \in Range(sel) THEN SelWithoutIds(sel, {id}) ELSE Append(sel, id)

\* handleSelect: a click or tap on an object, with or without Shift/Ctrl/Cmd
handleSelect(id, multi) ==
    /\ Step
    /\ StageIdle /\ UNCHANGED <<stageVars, viewVars, domVars, pendingLoads, call, utilVars>>
    /\ Idle /\ id \in Ids(canvasObjects)
    /\ selectedIds' = IF multi THEN ToggleSelection(selectedIds, id) ELSE <<id>>
    /\ UNCHANGED <<canvasObjects, clipboard, history, historyIndex, snapToGrid,
                   node, isTransforming, nextId>>
    /\ lastOp' = Op(IF multi THEN "toggle" ELSE "select", <<id>>, canvasObjects)
    /\ Rerendered(FALSE)

\* handleKeyDown, Ctrl/Cmd + a
SelectAll ==
    /\ Step
    /\ StageIdle /\ UNCHANGED <<stageVars, viewVars, domVars, pendingLoads, call, utilVars>>
    /\ Idle
    /\ selectedIds' = IdSeq(canvasObjects)
    /\ UNCHANGED <<canvasObjects, clipboard, history, historyIndex, snapToGrid,
                   node, isTransforming, nextId>>
    /\ lastOp' = Op("select_all", <<>>, canvasObjects)
    /\ Rerendered(FALSE)

\* handleKeyDown, Escape
Deselect ==
    /\ Step
    /\ StageIdle /\ UNCHANGED <<stageVars, viewVars, domVars, pendingLoads, call, utilVars>>
    /\ Idle
    /\ selectedIds' = <<>>
    /\ UNCHANGED <<canvasObjects, clipboard, history, historyIndex, snapToGrid,
                   node, isTransforming, nextId>>
    /\ lastOp' = Op("deselect", <<>>, canvasObjects)
    /\ Rerendered(FALSE)

\* handleKeyDown, Ctrl/Cmd + c
Copy ==
    /\ Step
    /\ StageIdle /\ UNCHANGED <<stageVars, viewVars, domVars, pendingLoads, call, utilVars>>
    /\ Idle
    /\ clipboard' = SelectSeq(canvasObjects, LAMBDA o : o.id \in Range(selectedIds))
    /\ UNCHANGED <<canvasObjects, selectedIds, history, historyIndex, snapToGrid,
                   node, isTransforming, nextId>>
    /\ lastOp' = Op("copy", <<>>, canvasObjects)
    /\ Rerendered(FALSE)

\* handleKeyDown, Ctrl/Cmd + v: one executeAction per clipboard item
Paste ==
    /\ Step
    /\ StageIdle /\ UNCHANGED <<stageVars, viewVars, domVars, pendingLoads, call, utilVars>>
    /\ Idle /\ CanRecord /\ nextId + Len(clipboard) <= MaxIds
    /\ \E ids \in PasteIdChoices(clipboard, nextId, <<>>) :
         LET actions == [i \in 1..Len(clipboard) |->
                            AddAction(PastedItem(clipboard[i], ids[i]))]
         IN /\ canvasObjects' = ApplyAll(canvasObjects, actions)
            /\ selectedIds' = ApplyAllSel(selectedIds, actions)
            /\ history' = HistoryAfter(history, historyIndex, actions)
            /\ historyIndex' = IndexAfter(history, historyIndex, actions)
            /\ lastOp' = Op("paste", ids, canvasObjects)
            /\ nextId' = IF ids = <<>> THEN nextId ELSE MaxOf(Range(ids) \cup {nextId})
    /\ UNCHANGED <<clipboard, snapToGrid, node, isTransforming>>
    /\ Rerendered(Len(clipboard) > 0)

\* handleKeyDown, Delete or Backspace: one executeAction per selected id,
\* then setSelectedIds([])
Delete ==
    /\ Step
    /\ StageIdle /\ UNCHANGED <<stageVars, viewVars, domVars, pendingLoads, call, utilVars>>
    /\ Idle /\ CanRecord
    /\ Len(selectedIds) > 0
    /\ LET actions == [i \in 1..Len(selectedIds) |-> RemoveAction(selectedIds[i])]
       IN /\ canvasObjects' = ApplyAll(canvasObjects, actions)
          /\ history' = HistoryAfter(history, historyIndex, actions)
          /\ historyIndex' = IndexAfter(history, historyIndex, actions)
    /\ selectedIds' = <<>>
    /\ UNCHANGED <<clipboard, snapToGrid, node, isTransforming, nextId>>
    /\ lastOp' = Op("delete", selectedIds, canvasObjects)
    /\ Rerendered(TRUE)

\* handleKeyDown, s, and the Snap button
ToggleSnap ==
    /\ Step
    /\ StageIdle /\ UNCHANGED <<stageVars, viewVars, domVars, pendingLoads, call, utilVars>>
    /\ Idle
    /\ snapToGrid' = ~snapToGrid
    /\ UNCHANGED <<canvasObjects, selectedIds, clipboard, history, historyIndex,
                   node, isTransforming, nextId>>
    /\ lastOp' = Op("snap", <<>>, canvasObjects)
    /\ Rerendered(FALSE)

-----------------------------------------------------------------------------
(* Handlers: undo and redo *)

Undo ==
    /\ Step
    /\ StageIdle /\ UNCHANGED <<stageVars, viewVars, domVars, pendingLoads, call, utilVars>>
    /\ Idle
    /\ IF historyIndex >= 0
       THEN /\ canvasObjects' = UndoObjects(canvasObjects, history, historyIndex)
            /\ selectedIds' = UndoSelection(selectedIds, history, historyIndex)
            /\ historyIndex' = historyIndex - 1
       ELSE UNCHANGED <<canvasObjects, selectedIds, historyIndex>>
    /\ UNCHANGED <<clipboard, history, snapToGrid, node, isTransforming, nextId>>
    /\ lastOp' = UndoOp(canvasObjects)
    /\ Rerendered(historyIndex >= 0)

Redo ==
    /\ Step
    /\ StageIdle /\ UNCHANGED <<stageVars, viewVars, domVars, pendingLoads, call, utilVars>>
    /\ Idle
    /\ IF historyIndex < Len(history) - 1
       THEN /\ canvasObjects' = RedoObjects(canvasObjects, history, historyIndex)
            /\ selectedIds' = RedoSelection(selectedIds, history, historyIndex)
            /\ historyIndex' = historyIndex + 1
       ELSE UNCHANGED <<canvasObjects, selectedIds, historyIndex>>
    /\ UNCHANGED <<clipboard, history, snapToGrid, node, isTransforming, nextId>>
    /\ lastOp' = RedoOp(canvasObjects)
    /\ Rerendered(historyIndex < Len(history) - 1)

-----------------------------------------------------------------------------
(* Handlers: drag and transform gestures *)

\* the graphics node of object obj when a gesture starts on it
NodeOf(obj, kind, start) ==
    [id |-> obj.id, kind |-> kind, x |-> obj.x, y |-> obj.y, scaleX |-> 1, scaleY |-> 1,
     rotation |-> IF obj.rotation = Undefined THEN 0 ELSE obj.rotation,
     start |-> start]

\* The scene, history and index after a handler called handleObjectUpdate
\* with the property sets calls[1], calls[2], ... for object id; each call is
\* one updateMultipleObjects updater, and the executeAction calls made inside
\* the updaters queue their own scene updaters behind them
RECURSIVE ObjectsAfterCalls(_, _, _)
ObjectsAfterCalls(objs, id, calls) ==
    IF calls = <<>> THEN objs
    ELSE ObjectsAfterCalls(UpdatedObjects(objs, ObjectUpdate(id, Head(calls))),
                           id, Tail(calls))

RECURSIVE PayloadsOfCalls(_, _, _, _)
PayloadsOfCalls(objs, id, calls, save) ==
    IF calls = <<>> THEN <<>>
    ELSE UpdatePayloads(objs, ObjectUpdate(id, Head(calls)), save)
         \o PayloadsOfCalls(UpdatedObjects(objs, ObjectUpdate(id, Head(calls))),
                            id, Tail(calls), save)

\* onChange(id, props, save) called once per element of calls
Commit(id, calls, save) ==
    LET payloads == PayloadsOfCalls(canvasObjects, id, calls, save)
    IN /\ canvasObjects' = ApplyAll(ObjectsAfterCalls(canvasObjects, id, calls), payloads)
       /\ selectedIds' = ApplyAllSel(selectedIds, payloads)
       /\ history' = HistoryAfter(history, historyIndex, payloads)
       /\ historyIndex' = IndexAfter(history, historyIndex, payloads)

\* onDragStart of any object: handleObjectDragStart
DragStart(id) ==
    /\ Step
    /\ StageIdle /\ UNCHANGED <<stageVars, viewVars, domVars, pendingLoads, call, utilVars>>
    /\ Idle /\ CanRecord /\ id \in Ids(canvasObjects)
    /\ node' = NodeOf(FindObj(canvasObjects, id), "drag", canvasObjects)
    /\ isTransforming' = TRUE
    /\ UNCHANGED <<canvasObjects, selectedIds, clipboard, history, historyIndex,
                   snapToGrid, nextId>>
    /\ lastOp' = GestureOp("dragStart", <<id>>, canvasObjects)
    /\ Rerendered(FALSE)

\* onDragEnd: the node was released at pos; URLImage.handleDragEnd for an
\* image, the inline handler of CanvasObjectRenderer otherwise
DragEnd(pos) ==
    /\ Step
    /\ StageIdle /\ UNCHANGED <<stageVars, viewVars, domVars, pendingLoads, call, utilVars>>
    /\ node # NoNode /\ node.kind = "drag"
    /\ LET obj == FindObj(canvasObjects, node.id)
           released == IF obj.type = "image" THEN doSnap(pos) ELSE pos
       IN Commit(node.id, <<[x |-> released.x, y |-> released.y]>>, TRUE)
    /\ node' = NoNode
    /\ UNCHANGED <<clipboard, snapToGrid, isTransforming, nextId>>
    /\ lastOp' = CommitOp("dragEnd", <<node.id>>, node.start, canvasObjects')
    /\ Rerendered(TRUE)

\* the transformer grabs the node of object id; for an image
\* onTransformStart = handleDragStart, and the transformer exists only while
\* the image is selected
TransformStart(id) ==
    /\ Step
    /\ StageIdle /\ UNCHANGED <<stageVars, viewVars, domVars, pendingLoads, call, utilVars>>
    /\ Idle /\ CanRecord /\ id \in Ids(canvasObjects)
    /\ LET obj == FindObj(canvasObjects, id)
       IN /\ obj.type = "image" => id \in Range(selectedIds)
          /\ node' = NodeOf(obj, "transform", canvasObjects)
          /\ isTransforming' = IF obj.type = "image" THEN TRUE ELSE isTransforming
    /\ UNCHANGED <<canvasObjects, selectedIds, clipboard, history, historyIndex,
                   snapToGrid, nextId>>
    /\ lastOp' = GestureOp("transformStart", <<id>>, canvasObjects)
    /\ Rerendered(FALSE)

\* boundBoxFunc of the image transformer: a box below the minimum is refused
BoxAllowed(obj, factors) ==
    ~(obj.width * factors[1] < MIN_SIZE \/ obj.height * factors[2] < MIN_SIZE)

\* One pointer move of the transformer: it leaves the position, scale
\* factors and rotation of input in on the node.  onTransform of a text or rectangle
\* applies them as a live update; an image has no onTransform handler.
TransformMove(in) ==
    /\ Step
    /\ StageIdle /\ UNCHANGED <<stageVars, viewVars, domVars, pendingLoads, call, utilVars>>
    /\ node # NoNode /\ node.kind = "transform"
    /\ LET obj == FindObj(canvasObjects, node.id)
           start == FindObj(node.start, node.id)
           pos == [x |-> start.x + in.dx, y |-> start.y + in.dy]
           factors == in.scale
           rot == in.rotation
       IN /\ obj.width * factors[1] <= MaxSize /\ obj.height * factors[2] <= MaxSize
          /\ node' = [node EXCEPT !.x = pos.x, !.y = pos.y, !.scaleX = factors[1],
                                  !.scaleY = factors[2], !.rotation = rot]
          /\ IF obj.type = "image"
             THEN /\ BoxAllowed(obj, factors)
                  /\ UNCHANGED <<canvasObjects, selectedIds, history, historyIndex>>
             ELSE Commit(node.id, <<[x |-> pos.x, y |-> pos.y,
                                     width |-> obj.width * factors[1],
                                     height |-> obj.height * factors[2],
                                     rotation |-> rot]>>, FALSE)
    /\ UNCHANGED <<clipboard, snapToGrid, isTransforming, nextId>>
    /\ lastOp' = GestureOp("transform", <<node.id>>, node.start)
    /\ Rerendered(FindObj(canvasObjects, node.id).type # "image")

\* the two onChange calls of URLImage.handleTransformEnd
ImageTransformEndCalls(obj, nd) ==
    LET snapped == doSnap([x |-> nd.x, y |-> nd.y])
    IN << [x |-> snapped.x, y |-> snapped.y],
          [x |-> snapped.x, y |-> snapped.y,
           width |-> IF obj.width * nd.scaleX < MIN_SIZE THEN MIN_SIZE
                     ELSE obj.width * nd.scaleX,
           height |-> IF obj.height * nd.scaleY < MIN_SIZE THEN MIN_SIZE
                      ELSE obj.height * nd.scaleY,
           rotation |-> nd.rotation] >>

\* the onChange call of onTransformEnd of a text or rectangle: the scale is
\* reset to 1 before the size is read
ShapeTransformEndCalls(obj, nd) ==
    << [x |-> nd.x, y |-> nd.y, width |-> obj.width * 1, height |-> obj.height * 1,
        rotation |-> nd.rotation] >>

\* onTransformEnd
TransformEnd ==
    /\ Step
    /\ StageIdle /\ UNCHANGED <<stageVars, viewVars, domVars, pendingLoads, call, utilVars>>
    /\ node # NoNode /\ node.kind = "transform"
    /\ LET obj == FindObj(canvasObjects, node.id)
       IN Commit(node.id,
                 IF obj.type = "image" THEN ImageTransformEndCalls(obj, node)
                 ELSE ShapeTransformEndCalls(obj, node),
                 TRUE)
    /\ node' = NoNode
    /\ UNCHANGED <<clipboard, snapToGrid, isTransforming, nextId>>
    /\ lastOp' = CommitOp("transformEnd", <<node.id>>, node.start, canvasObjects')
    /\ Rerendered(TRUE)

-----------------------------------------------------------------------------
(* Handlers: layering *)

\* newOrder.indexOf(id), 0 when absent
IndexOf(order, id) ==
    LET hits == {i \in 1..Len(order) : order[i] = id}
    IN IF hits = {} THEN 0 ELSE CHOOSE i \in hits : \A j \in hits : i <= j

Swap(order, i, j) == [order EXCEPT ![i] = order[j], ![j] = order[i]]

RECURSIVE ForwardOrder(_, _)
\* selectedIds.forEach: swap the id with the next item unless it is last
ForwardOrder(order, sel) ==
    IF sel = <<>> THEN order
    ELSE LET i == IndexOf(order, Head(sel))
         IN ForwardOrder(IF i > 0 /\ i < Len(order) THEN Swap(order, i, i + 1) ELSE order,
                         Tail(sel))

RECURSIVE BackwardOrder(_, _)
\* [...selectedIds].reverse().forEach: swap the id with the previous item
\* unless it is first; sel is walked from its last element
BackwardOrder(order, sel) ==
    IF sel = <<>> THEN order
    ELSE LET i == IndexOf(order, sel[Len(sel)])
         IN BackwardOrder(IF i > 1 THEN Swap(order, i, i - 1) ELSE order,
                          SubSeq(sel, 1, Len(sel) - 1))

FrontOrder(order, sel) == SelWithoutIds(order, Range(sel)) \o sel

BackOrder(order, sel) == sel \o SelWithoutIds(order, Range(sel))

LayerOrder(cmd, order, sel) ==
    CASE cmd = "forward" -> ForwardOrder(order, sel)
      [] cmd = "backward" -> BackwardOrder(order, sel)
      [] cmd = "front" -> FrontOrder(order, sel)
      [] cmd = "back" -> BackOrder(order, sel)

LayerCommands == {"forward", "backward", "front", "back"}

\* moveSelectedObjectsForward / moveSelectedObjectsBackward /
\* bringSelectedObjectsToFront / sendSelectedObjectsToBack
Layer(cmd) ==
    /\ Step
    /\ StageIdle /\ UNCHANGED <<stageVars, viewVars, domVars, pendingLoads, call, utilVars>>
    /\ Idle /\ CanRecord
    /\ Len(selectedIds) > 0
    /\ LET actions == <<ReorderAction(LayerOrder(cmd, IdSeq(canvasObjects), selectedIds))>>
       IN /\ canvasObjects' = ApplyAll(canvasObjects, actions)
          /\ selectedIds' = ApplyAllSel(selectedIds, actions)
          /\ history' = HistoryAfter(history, historyIndex, actions)
          /\ historyIndex' = IndexAfter(history, historyIndex, actions)
    /\ UNCHANGED <<clipboard, snapToGrid, node, isTransforming, nextId>>
    /\ lastOp' = Op(cmd, selectedIds, canvasObjects)
    /\ Rerendered(TRUE)

-----------------------------------------------------------------------------
(* Handlers: the mouse on the stage (pan and marquee) *)

\* offsets at which the mouse is pressed, moved and released on the stage
StagePoints == {[x |-> 160, y |-> 160], [x |-> 180, y |-> 180], [x |-> 600, y |-> 160]}

\* division rounded to the nearest integer, halves up (b > 0)
\* (offset - stagePos) / scale: the world point under a stage offset
ToWorld(p) ==
    [x |-> RoundDiv((p.x - stagePos.x) * 1000, scale),
     y |-> RoundDiv((p.y - stagePos.y) * 1000, scale)]

\* the arrow keys that are pressed
ArrowKeys == {"ArrowRight", "ArrowUp"}

MOVE_STEP == 10

\* const moveDistance = 10 / scale
moveDistance == RoundDiv(MOVE_STEP * 1000, scale)

\* selectedIds.map(id => ({id, attrs: {x or y: find(id).x or y -+ moveDistance}}))
NudgeUpdates(key) ==
    [i \in 1..Len(selectedIds) |->
        [id |-> selectedIds[i],
         attrs |-> IF key = "ArrowRight"
                   THEN [x |-> FindObj(canvasObjects, selectedIds[i]).x + moveDistance]
                   ELSE [y |-> FindObj(canvasObjects, selectedIds[i]).y - moveDistance]]]

\* handleKeyDown, an arrow key: updateMultipleObjects(updates, true)
handleKeyDownArrow(key) ==
    /\ Step
    /\ StageIdle /\ UNCHANGED <<stageVars, viewVars, domVars, pendingLoads, call, utilVars>>
    /\ Idle /\ CanRecord
    /\ Len(selectedIds) > 0
    /\ LET updates == NudgeUpdates(key)
           payloads == UpdatePayloads(canvasObjects, updates, TRUE)
       IN /\ canvasObjects' = ApplyAll(UpdatedObjects(canvasObjects, updates), payloads)
          /\ selectedIds' = ApplyAllSel(selectedIds, payloads)
          /\ history' = HistoryAfter(history, historyIndex, payloads)
          /\ historyIndex' = IndexAfter(history, historyIndex, payloads)
    /\ UNCHANGED <<clipboard, snapToGrid, node, isTransforming, nextId>>
    /\ lastOp' = Op("nudge", selectedIds, canvasObjects)
    /\ Rerendered(TRUE)

\* newRect of handleStageDragMove
RectOf(a, b) ==
    [x |-> IF a.x < b.x THEN a.x ELSE b.x,
     y |-> IF a.y < b.y THEN a.y ELSE b.y,
     width |-> IF b.x >= a.x THEN b.x - a.x ELSE a.x - b.x,
     height |-> IF b.y >= a.y THEN b.y - a.y ELSE a.y - b.y]

\* a marquee test that leaves out the objects that only touch the rectangle
MarqueeHits_Strict(objs, rect) ==
    IdSeq(SelectSeq(objs, LAMBDA img :
        /\ img.x < rect.x + rect.width
        /\ img.x + img.width > rect.x
        /\ img.y < rect.y + rect.height
        /\ img.y + img.height > rect.y))

\* newSelection of handleStageDragEnd
MarqueeHits(objs, rect) ==
    IdSeq(SelectSeq(objs, LAMBDA img :
        /\ img.x <= rect.x + rect.width
        /\ img.x + img.width >= rect.x
        /\ img.y <= rect.y + rect.height
        /\ img.y + img.height >= rect.y))

RECURSIVE Combined(_, _)
\* combined of handleStageDragEnd: prev with the new ids it lacks pushed
Combined(prev, newSelection) ==
    IF newSelection = <<>> THEN prev
    ELSE Combined(IF Head(newSelection) \in Range(prev) THEN prev
                  ELSE Append(prev, Head(newSelection)),
                  Tail(newSelection))

\* onMouseDown of the stage, for a press whose target is the stage itself;
\* mod: Shift or Ctrl/Cmd is down
handleStageDragStart(p, mod) ==
    /\ steps < MaxSteps /\ steps' = steps + 1
    /\ Idle /\ StageIdle
    /\ isPanning' = TRUE
    /\ lastPointerPosition' = p
    /\ selectedIds' = IF mod THEN selectedIds ELSE <<>>
    /\ IF mod
       THEN /\ isMultiSelectMode' = TRUE
            /\ selectionStart' = <<ToWorld(p)>>
            /\ selectionRect' = <<[x |-> ToWorld(p).x, y |-> ToWorld(p).y,
                                   width |-> 0, height |-> 0]>>
       ELSE UNCHANGED <<isMultiSelectMode, selectionStart, selectionRect>>
    /\ UNCHANGED <<canvasObjects, clipboard, history, historyIndex, snapToGrid,
                   node, isTransforming, nextId, pendingLoads, viewVars, domVars, call, utilVars>>
    /\ lastOp' = Op("stageDown", <<>>, canvasObjects)
    /\ Rerendered(FALSE)

\* onMouseMove of the stage: the marquee follows the mouse, or the stage pans
handleStageDragMove(p) ==
    /\ steps < MaxSteps /\ steps' = steps + 1
    /\ isPanning \/ isMultiSelectMode
    /\ IF isMultiSelectMode /\ selectionStart # <<>>
       THEN /\ selectionRect' = <<RectOf(selectionStart[1], ToWorld(p))>>
            /\ UNCHANGED <<lastPointerPosition, stagePos>>
       ELSE /\ stagePos' = [x |-> stagePos.x + (p.x - lastPointerPosition.x),
                            y |-> stagePos.y + (p.y - lastPointerPosition.y)]
            /\ lastPointerPosition' = p
            /\ UNCHANGED selectionRect
    /\ UNCHANGED <<sceneVars, isPanning, isMultiSelectMode, selectionStart,
                   canvas, scale, zoom, position, pinchDistance, pointer, domVars, call, utilVars>>
    /\ lastOp' = Op("stageMove", <<>>, canvasObjects)

\* onMouseUp of the stage; mod: Shift or Ctrl/Cmd is down at the release
handleStageDragEnd(mod) ==
    /\ steps < MaxSteps /\ steps' = steps + 1
    /\ isPanning \/ isMultiSelectMode
    /\ IF isMultiSelectMode /\ selectionRect # <<>>
       THEN LET newSelection == MarqueeHits(canvasObjects, selectionRect[1])
            IN /\ selectedIds' = IF mod THEN Combined(selectedIds, newSelection)
                                 ELSE newSelection
               /\ isMultiSelectMode' = FALSE
               /\ selectionRect' = <<>>
               /\ selectionStart' = <<>>
               /\ UNCHANGED <<canvasObjects, clipboard, history, historyIndex,
                              snapToGrid, node, isTransforming, nextId, pendingLoads,
                              visibleObjects>>
               /\ lastOp' = Op(IF mod THEN "marqueeAdd" ELSE "marquee",
                               newSelection, canvasObjects)
       ELSE /\ UNCHANGED <<sceneVars, isMultiSelectMode, selectionRect, selectionStart>>
            /\ lastOp' = Op("stageUp", <<>>, canvasObjects)
    /\ isPanning' = FALSE
    /\ UNCHANGED <<lastPointerPosition, viewVars, domVars, call, utilVars>>

\* the pointer leaves the stage during a pan or a marquee: the Stage wires
\* onWheel, onMouseDown, onMouseMove and onMouseUp and nothing else, so no
\* handler runs
stageMouseLeave ==
    /\ steps < MaxSteps /\ steps' = steps + 1
    /\ isPanning \/ isMultiSelectMode
    /\ UNCHANGED <<sceneVars, stageVars, viewVars, domVars, call, utilVars>>
    /\ lastOp' = Op("stageLeave", <<>>, canvasObjects)

-----------------------------------------------------------------------------
(* Rendering *)

\* visibleObjects is recomputed in the handlers that set canvasObjects, see
\* Rerendered

-----------------------------------------------------------------------------
(* The specification *)

\* the Konva canvas without initial images, and a HistoryStack after its
\* constructor
UtilInit ==
    /\ rowImgs = <<>>
    /\ undoStack = <<>>
    /\ redoStack = <<>>
    /\ currentState = <<>>
    /\ returned = <<>>
    /\ stackLog = [call |-> "new", pushed |-> <<>>, undos |-> 0, redos |-> 0,
                   plain |-> TRUE]

\* the DOM canvas after construction, with the empty images prop of its parent
DomInit ==
    /\ images = <<>>
    /\ isDragging = FALSE
    /\ dragStart = [x |-> 0, y |-> 0]
    /\ draggedImage = 0
    /\ dragImageOffset = [x |-> 0, y |-> 0]
    /\ resizingImage = 0
    /\ resizeHandle = "none"
    /\ resizeStart = [x |-> 0, y |-> 0, width |-> 0, height |-> 0]
    /\ rotatingImage = 0
    /\ rotateStart = 0
    /\ gestureStart = [images |-> <<>>, position |-> [x |-> 0, y |-> 0]]
    /\ ctxDrawn = <<>>
    /\ pendingDraws = <<>>
    /\ exported = <<>>

SceneInit ==
    /\ canvasObjects = <<>>
    /\ selectedIds = <<>>
    /\ clipboard = <<>>
    /\ history = <<>>
    /\ historyIndex = -1
    /\ snapToGrid = FALSE
    /\ node = NoNode
    /\ isTransforming = FALSE
    /\ nextId = 0
    /\ steps = 0
    /\ lastOp = [op |-> "init", ids |-> <<>>, before |-> <<>>, rec |-> FALSE, cut |-> 0,
                 base |-> <<>>, n |-> 0, u |-> 0]
    /\ isPanning = FALSE
    /\ lastPointerPosition = [x |-> 0, y |-> 0]
    /\ isMultiSelectMode = FALSE
    /\ selectionStart = <<>>
    /\ selectionRect = <<>>
    /\ pendingLoads = <<>>
    /\ visibleObjects = <<>>

\* the viewport of every canvas after construction
ViewportInit ==
    /\ scale = 1000
    /\ stagePos = [x |-> 0, y |-> 0]
    /\ zoom = 1000
    /\ position = [x |-> 0, y |-> 0]
    /\ pinchDistance = 0
    /\ pointer = [x |-> 0, y |-> 0]

NoCall == [value |-> 0, gridSize |-> 0, threshold |-> 0, result |-> 0, done |-> FALSE]

Init ==
    /\ SceneInit
    /\ ViewportInit
    /\ DomInit
    /\ UtilInit
    /\ canvas = "InfiniteCanvas"
    /\ call = NoCall

Next ==
    \/ \E type \in ShapeTypes : AddShape(type)
    \/ \E count \in BatchSizes : addImagesInLayout(count)
    \/ \E count \in UploadSizes : uploadOnChange(count)
    \/ \E i \in 1..MaxIds : uploadImageLoaded(i)
    \/ \E id \in 1..MaxIds, multi \in BOOLEAN : handleSelect(id, multi)
    \/ SelectAll
    \/ Deselect
    \/ Copy
    \/ Paste
    \/ Delete
    \/ ToggleSnap
    \/ Undo
    \/ Redo
    \/ \E id \in 1..MaxIds : DragStart(id)
    \/ \E pos \in DragTargets \cup {[x |-> node.x, y |-> node.y]} : DragEnd(pos)
    \/ \E id \in 1..MaxIds : TransformStart(id)
    \/ \E in \in TransformInputs : TransformMove(in)
    \/ TransformEnd
    \/ \E cmd \in LayerCommands : Layer(cmd)
    \/ \E key \in ArrowKeys : handleKeyDownArrow(key)
    \/ \E p \in StagePoints, mod \in BOOLEAN : handleStageDragStart(p, mod)
    \/ \E p \in StagePoints : handleStageDragMove(p)
    \/ \E mod \in BOOLEAN : handleStageDragEnd(mod)
    \/ stageMouseLeave

Spec == Init /\ [][Next]_vars

-----------------------------------------------------------------------------
(* The viewport: zoom and pan of the three canvas components.  A zoom is
   kept in thousandths and a pan offset in pixels, each rounded to the
   nearest unit. *)

\* the canvas with history (InfiniteCanvas of part_002), the Konva canvas and
\* the DOM canvas of components/infinite-canvas.tsx
Canvases == {"InfiniteCanvas", "KonvaCanvas", "DomCanvas"}

One == 1000
MIN_ZOOM == 100
MAX_ZOOM == 5000
ZOOM_SPEED == 50
ZOOM_OUT_FACTOR == 900
ZOOM_IN_FACTOR == 1100
SCALE_BY == 1100
WHEEL_DELTA == 20
PINCH_DIVISOR == 200

\* where the pointer, or the middle of the two fingers, is on the canvas
Pointers == {[x |-> 400, y |-> 300], [x |-> 200, y |-> 100]}

\* distances between the two fingers of a pinch
PinchDistances == {100, 300, 500}

Min(a, b) == IF a <= b THEN a ELSE b

Max(a, b) == IF a >= b THEN a ELSE b

\* Math.max(MIN_ZOOM, Math.min(MAX_ZOOM, v))
Clamp(v) == Max(MIN_ZOOM, Min(MAX_ZOOM, v))

\* pointer - mousePointTo * newScale with mousePointTo = (pointer - pos) / oldScale
ZoomedPos(p, pos, oldScale, newScale) ==
    [x |-> p.x - RoundDiv((p.x - pos.x) * newScale, oldScale),
     y |-> p.y - RoundDiv((p.y - pos.y) * newScale, oldScale)]

\* one more viewport event is handled
ViewStep ==
    /\ steps < (IF canvas = "KonvaCanvas" THEN MaxWheelSteps ELSE MaxViewSteps)
    /\ steps' = steps + 1

\* handleWheel of the canvas with history; direction is 1 for deltaY <= 0
\* and -1 for deltaY > 0
handleWheel(direction, p) ==
    /\ ViewStep
    /\ canvas = "InfiniteCanvas"
    /\ LET newScale == Clamp(RoundDiv(scale * (One + direction * ZOOM_SPEED), One))
       IN /\ scale' = newScale
          /\ stagePos' = ZoomedPos(p, stagePos, scale, newScale)
    /\ pointer' = p
    /\ UNCHANGED <<sceneVars, stageVars, domVars, canvas, zoom, position, pinchDistance, call, utilVars>>
    /\ lastOp' = Op("wheel", <<>>, canvasObjects)

\* onClick of the "-" button
ZoomOut ==
    /\ ViewStep
    /\ canvas = "InfiniteCanvas"
    /\ scale' = Max(MIN_ZOOM, RoundDiv(scale * ZOOM_OUT_FACTOR, One))
    /\ UNCHANGED <<sceneVars, stageVars, domVars, canvas, stagePos, zoom, position,
                   pinchDistance, pointer, call, utilVars>>
    /\ lastOp' = Op("zoomOut", <<>>, canvasObjects)

\* onClick of the "+" button
ZoomIn ==
    /\ ViewStep
    /\ canvas = "InfiniteCanvas"
    /\ scale' = Min(MAX_ZOOM, RoundDiv(scale * ZOOM_IN_FACTOR, One))
    /\ UNCHANGED <<sceneVars, stageVars, domVars, canvas, stagePos, zoom, position,
                   pinchDistance, pointer, call, utilVars>>
    /\ lastOp' = Op("zoomIn", <<>>, canvasObjects)

\* onClick of the reset-view button
ResetView ==
    /\ ViewStep
    /\ canvas = "InfiniteCanvas"
    /\ stagePos' = [x |-> 0, y |-> 0]
    /\ scale' = One
    /\ UNCHANGED <<sceneVars, stageVars, domVars, canvas, zoom, position, pinchDistance,
                   pointer, call, utilVars>>
    /\ lastOp' = Op("resetView", <<>>, canvasObjects)

\* handleWheel of the Konva canvas of components/infinite-canvas.tsx;
\* direction is 1 for deltaY > 0 and -1 otherwise
handleWheelKonva(direction, p) ==
    /\ ViewStep
    /\ canvas = "KonvaCanvas"
    /\ LET newScale == IF direction > 0 THEN RoundDiv(scale * SCALE_BY, One)
                       ELSE RoundDiv(scale * One, SCALE_BY)
       IN /\ scale' = newScale
          /\ stagePos' = ZoomedPos(p, stagePos, scale, newScale)
    /\ pointer' = p
    /\ UNCHANGED <<sceneVars, stageVars, domVars, canvas, zoom, position, pinchDistance, call, utilVars>>
    /\ lastOp' = Op("wheel", <<>>, canvasObjects)

\* position - (mouse / zoom) * delta
ShiftedPosition(pos, p, z, delta) ==
    [x |-> pos.x - RoundDiv(p.x * delta, z),
     y |-> pos.y - RoundDiv(p.y * delta, z)]

\* handleWheel of the DOM canvas; delta is -0.02 for deltaY > 0 and 0.02
\* otherwise
handleWheelDom(delta, p) ==
    /\ ViewStep
    /\ canvas = "DomCanvas"
    /\ zoom' = Clamp(zoom + delta)
    /\ position' = ShiftedPosition(position, p, zoom, delta)
    /\ pointer' = p
    /\ UNCHANGED <<sceneVars, stageVars, domVars, canvas, scale, stagePos, pinchDistance, call, utilVars>>
    /\ lastOp' = Op("wheel", <<>>, canvasObjects)

\* handleTouchStart of the DOM canvas with two fingers d pixels apart
handleTouchStart(d) ==
    /\ ViewStep
    /\ canvas = "DomCanvas"
    /\ pinchDistance' = d
    /\ UNCHANGED <<sceneVars, stageVars, domVars, canvas, scale, stagePos, zoom, position,
                   pointer, call, utilVars>>
    /\ lastOp' = Op("touchStart", <<>>, canvasObjects)

\* handleTouchMove of the DOM canvas with two fingers d pixels apart around p
handleTouchMove(d, p) ==
    /\ ViewStep
    /\ canvas = "DomCanvas"
    /\ pinchDistance > 0
    /\ LET delta == RoundDiv((d - pinchDistance) * One, PINCH_DIVISOR)
           newZoom == Clamp(zoom + delta)
           zoomDelta == newZoom - zoom
       IN /\ zoom' = newZoom
          /\ position' = ShiftedPosition(position, p, zoom, zoomDelta)
    /\ pinchDistance' = d
    /\ pointer' = p
    /\ UNCHANGED <<sceneVars, stageVars, domVars, canvas, scale, stagePos, call, utilVars>>
    /\ lastOp' = Op("pinch", <<>>, canvasObjects)

\* The canvas with history starts at scale 1, or at one end of the zoom
\* range: seventeen clicks on "+" (twenty-two on "-") from the initial
\* viewport leave exactly MAX_ZOOM (MIN_ZOOM) and do not move stagePos.
ViewInit ==
    /\ SceneInit
    /\ DomInit
    /\ UtilInit
    /\ canvas \in Canvases
    /\ scale \in IF canvas = "InfiniteCanvas" THEN {One, MIN_ZOOM, MAX_ZOOM} ELSE {One}
    /\ stagePos = [x |-> 0, y |-> 0]
    /\ zoom = One
    /\ position = [x |-> 0, y |-> 0]
    /\ pinchDistance = 0
    /\ pointer = [x |-> 0, y |-> 0]
    /\ call = NoCall

ViewNext ==
    \/ \E direction \in {-1, 1}, p \in Pointers : handleWheel(direction, p)
    \/ ZoomOut
    \/ ZoomIn
    \/ ResetView
    \/ \E direction \in {-1, 1}, p \in Pointers : handleWheelKonva(direction, p)
    \/ \E delta \in {-WHEEL_DELTA, WHEEL_DELTA}, p \in Pointers : handleWheelDom(delta, p)
    \/ \E d \in PinchDistances : handleTouchStart(d)
    \/ \E d \in PinchDistances, p \in Pointers : handleTouchMove(d, p)

ViewSpec == ViewInit /\ [][ViewNext]_vars

-----------------------------------------------------------------------------
(* The snap functions: snapToGrid of components/canvas-utils.ts and
   performGridSnap of the canvas with history *)

DEFAULT_GRID_SIZE == 20
DEFAULT_THRESHOLD == 10

\* grid sizes handed to snapToGrid: its default and the grid of the canvas
GridSizes == {DEFAULT_GRID_SIZE, GRID_SIZE}

\* a % b of JavaScript: the result has the sign of a
JsRem(a, b) == IF a >= 0 THEN a % b ELSE -((-a) % b)

\* snapToGrid(value, gridSize, threshold) of canvas-utils.ts
snapToGridValue(value, gridSize, threshold) ==
    LET remainder == JsRem(value, gridSize)
    IN IF remainder < threshold THEN value - remainder
       ELSE IF gridSize - remainder < threshold THEN value + (gridSize - remainder)
       ELSE value

\* performGridSnap(point) while snap mode is on
performGridSnap(point, on) ==
    IF ~on THEN point
    ELSE [x |-> SnapCoord(point.x), y |-> SnapCoord(point.y)]

\* the arguments of a call that has not been made yet
SnapInit ==
    /\ SceneInit
    /\ ViewportInit
    /\ DomInit
    /\ UtilInit
    /\ canvas = "InfiniteCanvas"
    /\ call \in {[value |-> v, gridSize |-> g, threshold |-> DEFAULT_THRESHOLD,
                  result |-> 0, done |-> FALSE] :
                    v \in (-MaxCoord)..MaxCoord, g \in GridSizes}

CallSnapToGrid ==
    /\ ~call.done
    /\ call' = [call EXCEPT
                  !.result = snapToGridValue(call.value, call.gridSize, call.threshold),
                  !.done = TRUE]
    /\ UNCHANGED <<sceneVars, stageVars, domVars, viewVars, utilVars, steps, lastOp>>

CallPerformGridSnap ==
    /\ ~call.done
    /\ call.gridSize = GRID_SIZE
    /\ call' = [call EXCEPT
                  !.result = performGridSnap([x |-> call.value, y |-> call.value], TRUE).x,
                  !.done = TRUE]
    /\ UNCHANGED <<sceneVars, stageVars, domVars, viewVars, utilVars, steps, lastOp>>

SnapNext == CallSnapToGrid \/ CallPerformGridSnap

SnapSpec == SnapInit /\ [][SnapNext]_vars

-----------------------------------------------------------------------------
(* The DOM canvas of components/infinite-canvas.tsx: mouse gestures on the
   canvas and on its images, and the export.  The canvas element fills the
   window, so that client coordinates are canvas coordinates; the content is
   drawn with scale(zoom) translate(-position). *)

DOM_MIN_SIZE == 20
NEW_IMAGE_X == 100
NEW_IMAGE_Y == 100
ROTATION_OFFSET == 270
FULL_TURN == 360

\* natural sizes of the pictures that are added
ImageSizes == {[width |-> 100, height |-> 100], [width |-> 60, height |-> 40]}

\* client positions of the mouse
MousePoints == {[x |-> 90, y |-> 90], [x |-> 120, y |-> 110], [x |-> 210, y |-> 230]}

Handles == {"top-left", "top-right", "bottom-left", "bottom-right"}

\* resizeHandle.includes('left'), resizeHandle.includes('top')
IncludesLeft(handle) == handle \in {"top-left", "bottom-left"}

IncludesTop(handle) == handle \in {"top-left", "top-right"}

\* images.find(img => img.id === imageId); the ids of images are distinct
FindImage(imgs, imageId) == imgs[CHOOSE i \in 1..Len(imgs) : imgs[i].id = imageId]

ImageIds(imgs) == {imgs[i].id : i \in 1..Len(imgs)}

\* where the content's point w is drawn: zoom * (w - position)
ToClient(w) ==
    [x |-> RoundDiv(zoom * (w.x - position.x), One),
     y |-> RoundDiv(zoom * (w.y - position.y), One)]

\* the centre of getBoundingClientRect() of an image element; a rotation
\* about the centre leaves it where it is
CenterOf(img) ==
    [x |-> RoundDiv(zoom * (2 * (img.x - position.x) + img.width), 2 * One),
     y |-> RoundDiv(zoom * (2 * (img.y - position.y) + img.height), 2 * One)]

\* the corner of an unrotated image at which a resize handle sits
HandlePoint(img, handle) ==
    ToClient([x |-> IF IncludesLeft(handle) THEN img.x ELSE img.x + img.width,
              y |-> IF IncludesTop(handle) THEN img.y ELSE img.y + img.height])

\* the box of image img covers client point p
Covers(img, p) ==
    /\ ToClient([x |-> img.x, y |-> img.y]).x <= p.x
    /\ p.x <= ToClient([x |-> img.x + img.width, y |-> img.y]).x
    /\ ToClient([x |-> img.x, y |-> img.y]).y <= p.y
    /\ p.y <= ToClient([x |-> img.x, y |-> img.y + img.height]).y

\* the image at index i is the one drawn on top at client point p
OnTop(imgs, i, p) ==
    /\ Covers(imgs[i], p)
    /\ \A j \in (i + 1)..Len(imgs) : ~Covers(imgs[j], p)

\* the pointer lies on one of the eight compass rays from the centre
OnCompass(dy, dx) == dx = 0 \/ dy = 0 \/ dy = dx \/ dy = -dx

\* Math.atan2(dy, dx) in degrees, for a pointer on a compass ray; the y axis
\* of the screen points down
Atan2Deg(dy, dx) ==
    CASE dx > 0 /\ dy = 0 -> 0
      [] dx > 0 /\ dy = dx -> 45
      [] dx = 0 /\ dy > 0 -> 90
      [] dx < 0 /\ dy = -dx -> 135
      [] dx < 0 /\ dy = 0 -> 180
      [] dx < 0 /\ dy = dx -> -135
      [] dx = 0 /\ dy < 0 -> -90
      [] dx > 0 /\ dy = -dx -> -45
      [] OTHER -> 0

\* the offsets from the centre at which the pointer is placed while rotating
CompassOffsets ==
    {[x |-> 0, y |-> -70], [x |-> 70, y |-> -70], [x |-> 70, y |-> 0], [x |-> 70, y |-> 70],
     [x |-> 0, y |-> 70], [x |-> -70, y |-> 70], [x |-> -70, y |-> 0], [x |-> -70, y |-> -70]}

\* the rotate handle sits above the middle of the top edge of the unrotated
\* element and turns with it: where it is for a rotation of r degrees
RotateHandleOffset(r) ==
    LET turned == JsRem(r + 90, FULL_TURN) - 180
        angle == IF turned = -180 THEN 180 ELSE turned
    IN CHOOSE o \in CompassOffsets : Atan2Deg(o.y, o.x) = angle

\* ((angle * 180) / Math.PI + 270) % 360
RotationOf(angle) == JsRem(angle + ROTATION_OFFSET, FULL_TURN)

\* Math.max(20, v)
AtLeastMin(v) == IF v < DOM_MIN_SIZE THEN DOM_MIN_SIZE ELSE v

Abs(v) == IF v < 0 THEN -v ELSE v

\* the size the resize branch of handleMouseMove computes: start is
\* resizeStart, dx and dy the pointer's way since the grab in content units
NewSize(start, handle, dx, dy, shiftKey) ==
    LET w == IF IncludesLeft(handle) THEN start.width - dx ELSE start.width + dx
        h == IF IncludesTop(handle) THEN start.height - dy ELSE start.height + dy
        \* Math.abs(scaleX) > Math.abs(scaleY), scaleX = w / start.width
        byX == Abs(w) * start.height > Abs(h) * start.width
    IN IF ~shiftKey
       THEN [width |-> AtLeastMin(w), height |-> AtLeastMin(h)]
       ELSE IF byX
       THEN [width |-> AtLeastMin(w),
             height |-> AtLeastMin(RoundDiv(start.height * w, start.width))]
       ELSE [width |-> AtLeastMin(RoundDiv(start.width * h, start.height)),
             height |-> AtLeastMin(h)]

\* one more event is handled by the DOM canvas
DomStep ==
    /\ steps < MaxDomSteps /\ steps' = steps + 1
    /\ canvas = "DomCanvas"

\* img.onload of handleFileChange and of addImageFromUrl
addImageLoaded(size) ==
    /\ DomStep
    /\ Len(images) < MaxImages
    /\ images' = Append([i \in 1..Len(images) |-> [images[i] EXCEPT !.selected = FALSE]],
                        [id |-> nextId + 1, x |-> NEW_IMAGE_X, y |-> NEW_IMAGE_Y,
                         width |-> size.width, height |-> size.height,
                         rotation |-> 0, selected |-> TRUE])
    /\ nextId' = nextId + 1
    /\ UNCHANGED <<canvasObjects, selectedIds, clipboard, history, historyIndex,
                   snapToGrid, node, isTransforming, pendingLoads, visibleObjects,
                   stageVars, viewVars, call, utilVars, isDragging, dragStart, draggedImage, dragImageOffset,
                   resizingImage, resizeHandle, resizeStart, rotatingImage, rotateStart,
                   gestureStart, ctxDrawn, pendingDraws, exported>>
    /\ lastOp' = Op("imageAdded", <<nextId + 1>>, <<>>)

\* onMouseDown of the canvas, for a press that is not on an image or a handle
handleCanvasMouseDown(p) ==
    /\ DomStep
    /\ \A i \in 1..Len(images) : ~Covers(images[i], p)
    /\ isDragging' = TRUE
    /\ dragStart' = p
    /\ images' = [i \in 1..Len(images) |-> [images[i] EXCEPT !.selected = FALSE]]
    /\ gestureStart' = [images |-> images, position |-> position]
    /\ pointer' = p
    /\ UNCHANGED <<sceneVars, stageVars, canvas, scale, stagePos, zoom, position,
                   pinchDistance, call, utilVars, draggedImage, dragImageOffset, resizingImage,
                   resizeHandle, resizeStart, rotatingImage, rotateStart, ctxDrawn,
                   pendingDraws, exported>>
    /\ lastOp' = Op("canvasDown", <<>>, <<>>)

\* onMouseDown of an image, for a press on the image that is on top at p
handleImageMouseDown(p, imageId) ==
    /\ DomStep
    /\ \E i \in 1..Len(images) : images[i].id = imageId /\ OnTop(images, i, p)
    /\ images' = [i \in 1..Len(images) |->
                     [images[i] EXCEPT !.selected = (images[i].id = imageId)]]
    /\ draggedImage' = imageId
    /\ LET image == FindImage(images, imageId)
       IN dragImageOffset' = [x |-> RoundDiv(p.x * One, zoom) - image.x,
                              y |-> RoundDiv(p.y * One, zoom) - image.y]
    /\ gestureStart' = [images |-> images, position |-> position]
    /\ pointer' = p
    /\ UNCHANGED <<sceneVars, stageVars, canvas, scale, stagePos, zoom, position,
                   pinchDistance, call, utilVars, isDragging, dragStart, resizingImage,
                   resizeHandle, resizeStart, rotatingImage, rotateStart, ctxDrawn,
                   pendingDraws, exported>>
    /\ lastOp' = Op("imageDown", <<imageId>>, <<>>)

\* onMouseDown of a resize handle of the selected image
handleResizeStart(imageId, handle) ==
    /\ DomStep
    /\ imageId \in ImageIds(images)
    /\ LET image == FindImage(images, imageId)
           p == HandlePoint(image, handle)
       IN /\ image.selected
          /\ resizingImage' = imageId
          /\ resizeHandle' = handle
          /\ resizeStart' = [x |-> p.x, y |-> p.y, width |-> image.width,
                             height |-> image.height]
          /\ pointer' = p
    /\ gestureStart' = [images |-> images, position |-> position]
    /\ UNCHANGED <<sceneVars, stageVars, canvas, scale, stagePos, zoom, position,
                   pinchDistance, call, utilVars, images, isDragging, dragStart, draggedImage,
                   dragImageOffset, rotatingImage, rotateStart, ctxDrawn, pendingDraws,
                   exported>>
    /\ lastOp' = Op("resizeDown", <<imageId>>, <<>>)

\* onMouseDown of the rotate handle of the selected image
handleRotateStart(imageId) ==
    /\ DomStep
    /\ imageId \in ImageIds(images)
    /\ LET image == FindImage(images, imageId)
           center == CenterOf(image)
           offset == RotateHandleOffset(image.rotation)
       IN /\ image.selected
          /\ rotatingImage' = imageId
          /\ rotateStart' = Atan2Deg(offset.y, offset.x)
          /\ pointer' = [x |-> center.x + offset.x, y |-> center.y + offset.y]
    /\ gestureStart' = [images |-> images, position |-> position]
    /\ UNCHANGED <<sceneVars, stageVars, canvas, scale, stagePos, zoom, position,
                   pinchDistance, call, utilVars, images, isDragging, dragStart, draggedImage,
                   dragImageOffset, resizingImage, resizeHandle, resizeStart, ctxDrawn,
                   pendingDraws, exported>>
    /\ lastOp' = Op("rotateDown", <<imageId>>, <<>>)

\* the images after the resize branch of handleMouseMove
ResizedImages(p, shiftKey) ==
    LET image == FindImage(images, resizingImage)
        dx == RoundDiv((p.x - resizeStart.x) * One, zoom)
        dy == RoundDiv((p.y - resizeStart.y) * One, zoom)
        size == NewSize(resizeStart, resizeHandle, dx, dy, shiftKey)
        newX == IF IncludesLeft(resizeHandle)
                THEN image.x + (resizeStart.width - size.width) ELSE image.x
        newY == IF IncludesTop(resizeHandle)
                THEN image.y + (resizeStart.height - size.height) ELSE image.y
    IN [i \in 1..Len(images) |->
           IF images[i].id = resizingImage
           THEN [images[i] EXCEPT !.width = size.width, !.height = size.height,
                                  !.x = newX, !.y = newY]
           ELSE images[i]]

\* onMouseMove of the canvas
handleMouseMove(p, shiftKey) ==
    /\ DomStep
    /\ IF isDragging
       THEN /\ position' = [x |-> position.x - RoundDiv((p.x - dragStart.x) * One, zoom),
                            y |-> position.y - RoundDiv((p.y - dragStart.y) * One, zoom)]
            /\ dragStart' = p
            /\ UNCHANGED images
       ELSE IF draggedImage # 0
       THEN /\ images' = [i \in 1..Len(images) |->
                             IF images[i].id = draggedImage
                             THEN [images[i] EXCEPT
                                     !.x = RoundDiv(p.x * One, zoom) - dragImageOffset.x,
                                     !.y = RoundDiv(p.y * One, zoom) - dragImageOffset.y]
                             ELSE images[i]]
            /\ UNCHANGED <<position, dragStart>>
       ELSE IF resizingImage # 0 /\ resizeHandle # "none"
       THEN /\ IF resizingImage \in ImageIds(images)
               THEN images' = ResizedImages(p, shiftKey)
               ELSE UNCHANGED images
            /\ UNCHANGED <<position, dragStart>>
       ELSE IF rotatingImage # 0
       THEN /\ IF rotatingImage \in ImageIds(images)
               THEN LET center == CenterOf(FindImage(images, rotatingImage))
                        angle == Atan2Deg(p.y - center.y, p.x - center.x)
                    IN /\ OnCompass(p.y - center.y, p.x - center.x)
                       /\ images' = [i \in 1..Len(images) |->
                                        IF images[i].id = rotatingImage
                                        THEN [images[i] EXCEPT !.rotation = RotationOf(angle)]
                                        ELSE images[i]]
               ELSE UNCHANGED images
            /\ UNCHANGED <<position, dragStart>>
       ELSE UNCHANGED <<images, position, dragStart>>
    /\ pointer' = p
    /\ UNCHANGED <<sceneVars, stageVars, canvas, scale, stagePos, zoom, pinchDistance,
                   call, utilVars, isDragging, draggedImage, dragImageOffset, resizingImage,
                   resizeHandle, resizeStart, rotatingImage, rotateStart, gestureStart,
                   ctxDrawn, pendingDraws, exported>>
    /\ lastOp' = Op("mouseMove", <<>>, <<>>)

\* onMouseUp and onMouseLeave of the canvas: handleMouseUp; leave tells them
\* apart
handleMouseUp(leave) ==
    /\ DomStep
    /\ isDragging' = FALSE
    /\ draggedImage' = 0
    /\ resizingImage' = 0
    /\ resizeHandle' = "none"
    /\ rotatingImage' = 0
    /\ UNCHANGED <<sceneVars, stageVars, viewVars, call, utilVars, images, dragStart,
                   dragImageOffset, resizeStart, rotateStart, gestureStart, ctxDrawn,
                   pendingDraws, exported>>
    /\ lastOp' = Op(IF leave THEN "mouseLeave" ELSE "mouseUp", <<>>, <<>>)

\* exportCanvas: every image gets an Image element whose onload will draw
\* it; then, in the same call, the canvas is encoded and the download starts
exportCanvas ==
    /\ DomStep
    /\ exported = <<>> /\ pendingDraws = <<>>
    /\ pendingDraws' = images
    /\ ctxDrawn' = <<>>
    /\ exported' = <<ctxDrawn'>>
    /\ UNCHANGED <<sceneVars, stageVars, viewVars, call, utilVars, images, isDragging, dragStart,
                   draggedImage, dragImageOffset, resizingImage, resizeHandle,
                   resizeStart, rotatingImage, rotateStart, gestureStart>>
    /\ lastOp' = Op("export", <<>>, <<>>)

\* img.onload of the i-th pending image of an export: it is drawn
exportImageLoaded(i) ==
    /\ DomStep
    /\ i \in 1..Len(pendingDraws)
    /\ ctxDrawn' = Append(ctxDrawn, pendingDraws[i].id)
    /\ pendingDraws' = SubSeq(pendingDraws, 1, i - 1)
                       \o SubSeq(pendingDraws, i + 1, Len(pendingDraws))
    /\ UNCHANGED <<sceneVars, stageVars, viewVars, call, utilVars, images, isDragging, dragStart,
                   draggedImage, dragImageOffset, resizingImage, resizeHandle,
                   resizeStart, rotatingImage, rotateStart, gestureStart, exported>>
    /\ lastOp' = Op("exportDraw", <<>>, <<>>)

\* client positions to which the mouse moves: the fixed ones and, while an
\* image is being rotated, the compass points around its centre
MoveTargets ==
    MousePoints \cup
    (IF rotatingImage \in ImageIds(images)
     THEN {[x |-> CenterOf(FindImage(images, rotatingImage)).x + o.x,
            y |-> CenterOf(FindImage(images, rotatingImage)).y + o.y] : o \in CompassOffsets}
     ELSE {})

DomCanvasInit ==
    /\ SceneInit
    /\ ViewportInit
    /\ DomInit
    /\ UtilInit
    /\ canvas = "DomCanvas"
    /\ call = NoCall

DomNext ==
    \/ \E size \in ImageSizes : addImageLoaded(size)
    \/ \E p \in MousePoints : handleCanvasMouseDown(p)
    \/ \E p \in MousePoints, imageId \in 1..MaxImages : handleImageMouseDown(p, imageId)
    \/ \E imageId \in 1..MaxImages, handle \in Handles : handleResizeStart(imageId, handle)
    \/ \E imageId \in 1..MaxImages : handleRotateStart(imageId)
    \/ \E p \in MoveTargets, shiftKey \in BOOLEAN : handleMouseMove(p, shiftKey)
    \/ \E leave \in BOOLEAN : handleMouseUp(leave)
    \/ exportCanvas
    \/ \E i \in 1..MaxImages : exportImageLoaded(i)

DomSpec == DomCanvasInit /\ [][DomNext]_vars

-----------------------------------------------------------------------------
(* The Konva canvas of components/infinite-canvas.tsx: images in a row *)

GAP == 40
DEFAULT_W == 200
DEFAULT_H == 150

MaxRowImages == 4    \* images the Konva canvas ever holds

\* the widths of the images handed to addImagesRow; 0: no width given
RowWidths == {0, 60, 120}

RowInputs ==
    {<<[width |-> a]>> : a \in RowWidths}
       \cup {<<[width |-> a], [width |-> b]>> : a \in RowWidths, b \in RowWidths}

\* v || d
OrElse(v, d) == IF v = 0 THEN d ELSE v

\* prev.length ? Math.max(...prev.map(i => i.x + i.width)) + GAP : 0
RowStartX(prev) ==
    IF Len(prev) = 0 THEN 0
    ELSE MaxOf({prev[i].x + prev[i].width : i \in 1..Len(prev)}) + GAP

\* images.map((img, i) => ...), i counted from 0; in
\* img.width || DEFAULT_W + GAP the sum binds tighter than ||
RowImages(prev, inputs) ==
    [j \in 1..Len(inputs) |->
        [id |-> Len(prev) + j,
         x |-> RowStartX(prev) + (j - 1) * OrElse(inputs[j].width, DEFAULT_W + GAP),
         y |-> 0,
         width |-> OrElse(inputs[j].width, DEFAULT_W),
         height |-> DEFAULT_H,
         rotation |-> 0]]

addImagesRow(inputs) ==
    /\ Len(rowImgs) + Len(inputs) <= MaxRowImages
    /\ rowImgs' = rowImgs \o RowImages(rowImgs, inputs)
    /\ UNCHANGED <<sceneVars, stageVars, viewVars, domVars, call, steps, lastOp,
                   undoStack, redoStack, currentState, returned, stackLog>>

RowInit ==
    /\ SceneInit
    /\ ViewportInit
    /\ DomInit
    /\ UtilInit
    /\ canvas = "KonvaCanvas"
    /\ call = NoCall

RowNext == \E inputs \in RowInputs : addImagesRow(inputs)

RowSpec == RowInit /\ [][RowNext]_vars

-----------------------------------------------------------------------------
(* HistoryStack of components/canvas-utils.ts *)

MaxStack == 3        \* maxSize handed to the constructor
MaxStackCalls == 7   \* calls made on the stack in one behaviour

\* the states that are pushed: lists of numbers
StackStates == {<<10>>, <<20>>, <<10, 20>>}

\* a copy that loses every element
JsonCopy_Empty(v) == <<>>

\* JSON.parse(JSON.stringify(v)) of a list of numbers: a new list with the
\* same elements
JsonCopy(v) == [i \in 1..Len(v) |-> v[i]]

StackCall == steps < MaxStackCalls /\ steps' = steps + 1

\* the log of a call: pushes, then undos that returned a state, then redos
\* that returned a state, with no push that dropped the oldest state
Logged(name, state, counted, ok) ==
    [call |-> name,
     pushed |-> IF name = "push" THEN Append(stackLog.pushed, state) ELSE stackLog.pushed,
     undos |-> IF name = "undo" /\ counted THEN stackLog.undos + 1 ELSE stackLog.undos,
     redos |-> IF name = "redo" /\ counted THEN stackLog.redos + 1 ELSE stackLog.redos,
     plain |-> stackLog.plain /\ ok]

\* the caller moves to a new state and pushes it
push(state) ==
    /\ StackCall
    /\ LET grown == Append(undoStack, JsonCopy(state))
       IN /\ undoStack' = IF Len(grown) > MaxStack THEN Tail(grown) ELSE grown
          /\ stackLog' = Logged("push", state, TRUE,
                                /\ stackLog.undos = 0 /\ stackLog.redos = 0
                                /\ Len(grown) <= MaxStack)
    /\ redoStack' = <<>>
    /\ currentState' = state
    /\ UNCHANGED <<returned, rowImgs>>
    /\ UNCHANGED <<sceneVars, stageVars, viewVars, domVars, call, lastOp>>

\* undo(currentState); the caller takes over the state it gets back
stackUndo ==
    /\ StackCall
    /\ IF Len(undoStack) <= 1
       THEN /\ returned' = <<>>
            /\ UNCHANGED <<undoStack, redoStack, currentState>>
            /\ stackLog' = Logged("undo", <<>>, FALSE, TRUE)
       ELSE /\ redoStack' = Append(redoStack, JsonCopy(currentState))
            /\ undoStack' = SubSeq(undoStack, 1, Len(undoStack) - 1)
            /\ returned' = <<JsonCopy(undoStack'[Len(undoStack')])>>
            /\ currentState' = returned'[1]
            /\ stackLog' = Logged("undo", <<>>, TRUE, stackLog.redos = 0)
    /\ UNCHANGED rowImgs
    /\ UNCHANGED <<sceneVars, stageVars, viewVars, domVars, call, lastOp>>

\* redo(); the caller takes over the state it gets back
stackRedo ==
    /\ StackCall
    /\ IF Len(redoStack) = 0
       THEN /\ returned' = <<>>
            /\ UNCHANGED <<undoStack, redoStack, currentState>>
            /\ stackLog' = Logged("redo", <<>>, FALSE, TRUE)
       ELSE LET nextState == redoStack[Len(redoStack)]
            IN /\ redoStack' = SubSeq(redoStack, 1, Len(redoStack) - 1)
               /\ undoStack' = Append(undoStack, JsonCopy(nextState))
               /\ returned' = <<JsonCopy(nextState)>>
               /\ currentState' = returned'[1]
               /\ stackLog' = Logged("redo", <<>>, TRUE, TRUE)
    /\ UNCHANGED rowImgs
    /\ UNCHANGED <<sceneVars, stageVars, viewVars, domVars, call, lastOp>>

StackNext ==
    \/ \E state \in StackStates : push(state)
    \/ stackUndo
    \/ stackRedo

StackSpec == Init /\ [][StackNext]_vars

-----------------------------------------------------------------------------
(* Properties of undo and redo *)

\* the action a call of undo() reverts, and the one a call of redo() reapplies
UndoTarget == history[historyIndex + 1]

RedoTarget == history[historyIndex + 2]

CanUndo == historyIndex >= 0

CanRedo == historyIndex < Len(history) - 1

LayerOps == LayerCommands

\* C1: undo() of an Add(obj) leaves a scene without obj.id, and redo() of
\* that Add leaves a scene in which obj.id is present and every object with
\* that id equals the added object in every property.
C1_UndoRedoOfAdd ==
    [][ /\ (lastOp'.op = "undo" /\ CanUndo /\ UndoTarget.type = "add")
            => UndoTarget.object.id \notin Ids(canvasObjects')
        /\ (lastOp'.op = "redo" /\ CanRedo /\ RedoTarget.type = "add")
            => /\ RedoTarget.object.id \in Ids(canvasObjects')
               /\ \A i \in 1..Len(canvasObjects') :
                     canvasObjects'[i].id = RedoTarget.object.id
                        => canvasObjects'[i] = RedoTarget.object ]_vars

\* an Add was undone and redone: the object is back, and it was absent
\* before the redo
C1_Witness ==
    /\ lastOp.op = "redo" /\ CanUndo /\ UndoTarget.type = "add"
    /\ UndoTarget.object.id \notin Ids(lastOp.before)
    /\ UndoTarget.object \in Range(canvasObjects)

\* C2: after a run of N >= 1 committed gestures followed by N undo() calls
\* the scene equals the scene before the first gesture.
C2_GesturesThenUndos ==
    (lastOp.op = "undo" /\ lastOp.n >= 1 /\ lastOp.u = lastOp.n)
        => canvasObjects = lastOp.base

\* C3: removing one object of the scene and calling undo() re-inserts the
\* object as it was immediately before the removal.
C3_UndoOfRemoveRestores ==
    [][ (/\ lastOp.op = "delete" /\ Len(lastOp.ids) = 1
         /\ lastOp.ids[1] \in Ids(lastOp.before)
         /\ lastOp'.op = "undo")
        => FindObj(lastOp.before, lastOp.ids[1]) \in Range(canvasObjects') ]_vars

\* C4: undoing a Reorder restores the scene order that existed immediately
\* before the Reorder was executed.
C4_UndoOfReorderRestores ==
    [][ (lastOp.op \in LayerOps /\ lastOp'.op = "undo")
        => IdSeq(canvasObjects') = IdSeq(lastOp.before) ]_vars

\* C5: a handler that records an action leaves the recorded action on top
\* of the history with no action above the new index, so that nothing can be
\* redone; a redo() right after it changes neither the scene, the selection
\* nor the history.
C5_RecordDiscardsUndone ==
    [][ /\ lastOp'.rec
            => /\ historyIndex' = Len(history') - 1
               /\ Len(history') >= 1
        /\ (lastOp.rec /\ lastOp'.op = "redo")
            => UNCHANGED <<canvasObjects, selectedIds, history, historyIndex>> ]_vars

\* an action was recorded on top of a history with undone actions
C5_Witness == lastOp.rec /\ lastOp.cut >= 1 /\ ~CanRedo

\* C6: a Delete key press with k >= 2 selected objects removes the k objects
\* and leaves k removal entries, one per object, on top of the history.
C6_DeleteRecordsAll ==
    (lastOp.op = "delete" /\ Len(lastOp.ids) >= 2)
        => /\ Range(lastOp.ids) \cap Ids(canvasObjects) = {}
           /\ historyIndex + 1 >= Len(lastOp.ids)
           /\ \A i \in 1..Len(lastOp.ids) :
                 history[historyIndex + 1 - Len(lastOp.ids) + i] = RemoveAction(lastOp.ids[i])

\* C7: a paste of k >= 2 clipboard objects inserts k objects with ids that
\* are new and pairwise distinct, each at its source's (x + 20, y + 20), and
\* a single undo() removes all of them.
C7_PasteIsOneBatch ==
    [][ (lastOp.op = "paste" /\ Len(lastOp.ids) >= 2)
        => /\ Len(canvasObjects) = Len(lastOp.before) + Len(lastOp.ids)
           /\ \A i \in 1..Len(lastOp.ids) :
                 /\ lastOp.ids[i] \notin Ids(lastOp.before)
                 /\ \A j \in 1..Len(lastOp.ids) : i # j => lastOp.ids[i] # lastOp.ids[j]
                 /\ canvasObjects[Len(lastOp.before) + i].x = clipboard[i].x + PASTE_OFFSET
                 /\ canvasObjects[Len(lastOp.before) + i].y = clipboard[i].y + PASTE_OFFSET
           /\ lastOp'.op = "undo"
                 => Range(lastOp.ids) \cap Ids(canvasObjects') = {} ]_vars

\* C8: when one of several selected objects is dragged, on release every
\* selected object has moved by the delta of the dragged one, and an undo()
\* right after returns all of them to their positions before the drag.
C8_SelectionMovesTogether ==
    [][ /\ (/\ lastOp'.op = "dragEnd" /\ node.id \in Range(selectedIds)
            /\ Cardinality(Range(selectedIds)) >= 2)
            => LET dx == FindObj(canvasObjects', node.id).x - FindObj(canvasObjects, node.id).x
                   dy == FindObj(canvasObjects', node.id).y - FindObj(canvasObjects, node.id).y
               IN \A id \in Range(selectedIds) :
                     /\ FindObj(canvasObjects', id).x = FindObj(canvasObjects, id).x + dx
                     /\ FindObj(canvasObjects', id).y = FindObj(canvasObjects, id).y + dy
        /\ (/\ lastOp.op = "dragEnd" /\ lastOp.ids[1] \in Range(selectedIds)
            /\ Cardinality(Range(selectedIds)) >= 2 /\ lastOp'.op = "undo")
            => \A id \in Range(selectedIds) :
                  /\ FindObj(canvasObjects', id).x = FindObj(lastOp.before, id).x
                  /\ FindObj(canvasObjects', id).y = FindObj(lastOp.before, id).y ]_vars

GestureKeys == {"x", "y", "width", "height", "rotation"}

\* C9: after a completed gesture that changed the object, the entry on top
\* of the history is an update of that object whose prevProps hold the
\* gesture-start value and whose newProps hold the released value of every
\* property the gesture changed.
C9_OneEntryPerGesture ==
    (lastOp.op \in {"dragEnd", "transformEnd"} /\ canvasObjects # lastOp.before)
        => LET id == lastOp.ids[1]
               was == FindObj(lastOp.before, id)
               now == FindObj(canvasObjects, id)
               changed == {k \in GestureKeys : was[k] # now[k]}
           IN /\ CanUndo
              /\ UndoTarget.type = "update"
              /\ UndoTarget.objectId = id
              /\ \A k \in changed :
                    /\ k \in DOMAIN UndoTarget.prevProps
                    /\ UndoTarget.prevProps[k] = was[k]
                    /\ k \in DOMAIN UndoTarget.newProps
                    /\ UndoTarget.newProps[k] = now[k]

\* C10: after a reorder the rendered sequence, lowest first, is the order
\* the reorder asked for.
C10_ReorderSetsPaintOrder ==
    (lastOp.op \in LayerOps /\ lastOp.rec)
        => IdSeq(visibleObjects) = UndoTarget.objectIds

-----------------------------------------------------------------------------
(* Properties of the scene and the selection *)

AddOps == {"add", "add_batch", "paste"}

\* C11: every object that an add, a batch add or a paste has just inserted
\* has a zIndex greater than the zIndex of every object that was in the scene
\* before it, so that no two objects share a zIndex.
C11_NewObjectOnTop ==
    lastOp.op \in AddOps
        => \A i \in (Len(lastOp.before) + 1)..Len(canvasObjects) :
              \A j \in 1..(i - 1) : canvasObjects[i].zIndex > canvasObjects[j].zIndex

\* C12: no two objects of the scene have the same id.
C12_IdsUnique ==
    \A i, j \in 1..Len(canvasObjects) :
        i # j => canvasObjects[i].id # canvasObjects[j].id

\* C13: every selected id is the id of an object of the scene.
C13_SelectionInScene == Range(selectedIds) \subseteq Ids(canvasObjects)

\* an undo took an object out of the scene while other objects stay selected
C13_Witness ==
    /\ lastOp.op = "undo"
    /\ Ids(lastOp.before) \ Ids(canvasObjects) # {}
    /\ selectedIds # <<>>

\* C14: after a pointer move of a resize and after its release the resized
\* object is at least MIN_SIZE wide and MIN_SIZE high.
C14_ResizeKeepsMinSize ==
    (lastOp.op \in {"transform", "transformEnd"})
        => LET obj == FindObj(canvasObjects, lastOp.ids[1])
           IN obj.width >= MIN_SIZE /\ obj.height >= MIN_SIZE

\* C17: the release of a marquee selects exactly the objects whose box is
\* not entirely to one side of the marquee rectangle (a shared edge or corner
\* counts as overlap), together with the previous selection when Shift or
\* Ctrl/Cmd is down at the release.
C17_MarqueeSelectsOverlapping ==
    [][ lastOp'.op \in {"marquee", "marqueeAdd"}
        => LET rect == selectionRect[1]
               apart(o) == \/ o.x + o.width < rect.x
                           \/ rect.x + rect.width < o.x
                           \/ o.y + o.height < rect.y
                           \/ rect.y + rect.height < o.y
               overlapping == {o.id : o \in {q \in Range(canvasObjects) : ~apart(q)}}
           IN Range(selectedIds') =
                 overlapping \cup (IF lastOp'.op = "marqueeAdd"
                                   THEN Range(selectedIds) ELSE {}) ]_vars

\* a marquee released with the modifier down picked some but not all objects
\* and was added to an earlier selection
C17_Witness ==
    /\ lastOp.op = "marqueeAdd"
    /\ lastOp.ids # <<>>
    /\ Range(lastOp.ids) # Ids(canvasObjects)
    /\ Range(selectedIds) # Range(lastOp.ids)

\* C18: a click with Shift or Ctrl/Cmd down flips the membership of the
\* clicked id in the selection and of no other id.
C18_ModifierClickToggles ==
    [][ lastOp'.op = "toggle"
        => LET id == lastOp'.ids[1]
           IN /\ (id \in Range(selectedIds)) # (id \in Range(selectedIds'))
              /\ \A other \in (Range(selectedIds) \cup Range(selectedIds')) \ {id} :
                    (other \in Range(selectedIds)) = (other \in Range(selectedIds')) ]_vars

\* a modifier click took the clicked id out of a selection that keeps others
C18_Witness ==
    /\ lastOp.op = "toggle"
    /\ lastOp.ids[1] \notin Range(selectedIds)
    /\ selectedIds # <<>>

\* C19: while snap mode is off, the release of a drag commits the position
\* at which the node was released, and the release of a transform commits
\* the position the transformer left on the node.
C19_NoSnapWhenOff ==
    [][ ~snapToGrid
        => /\ \A pos \in DragTargets \cup {[x |-> node.x, y |-> node.y]} :
                 DragEnd(pos)
                    => /\ FindObj(canvasObjects', node.id).x = pos.x
                       /\ FindObj(canvasObjects', node.id).y = pos.y
           /\ lastOp'.op = "transformEnd"
                 => /\ FindObj(canvasObjects', node.id).x = node.x
                    /\ FindObj(canvasObjects', node.id).y = node.y ]_vars

-----------------------------------------------------------------------------
(* Properties of the viewport *)

\* C15: the zoom of every canvas stays between MIN_ZOOM and MAX_ZOOM.
C15_ZoomInRange ==
    /\ MIN_ZOOM <= scale /\ scale <= MAX_ZOOM
    /\ MIN_ZOOM <= zoom /\ zoom <= MAX_ZOOM

\* C16: after a wheel or pinch step the world point that was under the
\* pointer before the step is drawn under the pointer again, to within two
\* pixels.  The Konva canvases draw world point w at w * scale + stagePos,
\* the DOM canvas at zoom * (w - position).
C16_ZoomKeepsAnchor ==
    [][ lastOp'.op \in {"wheel", "pinch"}
        => LET after(m, pos, posAfter) ==
                   IF canvas = "DomCanvas"
                   THEN RoundDiv(zoom' * m, zoom) + RoundDiv(zoom' * (pos - posAfter), One)
                   ELSE RoundDiv((m - pos) * scale', scale) + posAfter
               near(a, b) == a - b <= 2 /\ b - a <= 2
           IN IF canvas = "DomCanvas"
              THEN /\ near(after(pointer'.x, position.x, position'.x), pointer'.x)
                   /\ near(after(pointer'.y, position.y, position'.y), pointer'.y)
              ELSE /\ near(after(pointer'.x, stagePos.x, stagePos'.x), pointer'.x)
                   /\ near(after(pointer'.y, stagePos.y, stagePos'.y), pointer'.y) ]_vars

-----------------------------------------------------------------------------
(* Properties of the snap functions *)

\* C20: the value a snap function returns is a multiple of the grid size,
\* and no multiple of the grid size is nearer to the argument.
C20_SnapToNearestMultiple ==
    call.done
        => /\ call.result % call.gridSize = 0
           /\ 2 * (call.result - call.value) <= call.gridSize
           /\ 2 * (call.value - call.result) <= call.gridSize

-----------------------------------------------------------------------------
(* Properties of uploads *)

\* C22: an image decode that completes appends its image to the scene and
\* its add to the applied part of the history as it is at that moment, so
\* that the adds of the earlier decodes stay in the history below it.
C22_UploadRecordsEveryImage ==
    [][ lastOp'.op = "imageLoaded"
        => /\ Len(canvasObjects') = Len(canvasObjects) + 1
           /\ canvasObjects'[Len(canvasObjects')].id = lastOp'.ids[1]
           /\ historyIndex' = historyIndex + 1
           /\ Len(history') = historyIndex + 2
           /\ SubSeq(history', 1, historyIndex + 1) = SubSeq(history, 1, historyIndex + 1)
           /\ history'[Len(history')] = AddAction(canvasObjects'[Len(canvasObjects')]) ]_vars

-----------------------------------------------------------------------------
(* Properties of the gestures *)

\* the gesture flags that are set: of the canvas with history, then of the
\* DOM canvas
ActiveGestures ==
    {f \in {"panning", "marquee", "drag", "transform"} :
        \/ f = "panning" /\ isPanning
        \/ f = "marquee" /\ isMultiSelectMode
        \/ f = "drag" /\ node # NoNode /\ node.kind = "drag"
        \/ f = "transform" /\ node # NoNode /\ node.kind = "transform"}
    \cup
    {f \in {"isDragging", "draggedImage", "resizingImage", "rotatingImage"} :
        \/ f = "isDragging" /\ isDragging
        \/ f = "draggedImage" /\ draggedImage # 0
        \/ f = "resizingImage" /\ resizingImage # 0
        \/ f = "rotatingImage" /\ rotatingImage # 0}

\* C24: at most one gesture flag is set at any time.
C24_OneGestureAtATime == Cardinality(ActiveGestures) <= 1

\* what ends a gesture: a mouse up on the stage, the pointer leaving it, the
\* release of a dragged or transformed object
ReleaseOps == {"stageUp", "marquee", "marqueeAdd", "stageLeave", "dragEnd", "transformEnd"}

\* C25: after a release, or after the pointer left the stage, no gesture
\* flag is set (panning, marquee mode, transforming, the grabbed node), and a
\* pointer move that follows changes neither the viewport nor the scene.
C25_IdleAfterRelease ==
    [][ /\ lastOp'.op \in ReleaseOps
            => /\ ~isPanning' /\ ~isMultiSelectMode' /\ ~isTransforming'
               /\ node' = NoNode
        /\ (lastOp.op \in ReleaseOps /\ lastOp'.op = "stageMove")
            => UNCHANGED <<stagePos, scale, canvasObjects, selectedIds>> ]_vars

-----------------------------------------------------------------------------
(* Properties of updates and batches *)

\* C28: a pointer move of a transform, which applies its update with
\* saveHistory = false, leaves the history and the history index as they were.
C28_LiveUpdateKeepsHistory ==
    [][ lastOp'.op = "transform" => UNCHANGED <<history, historyIndex>> ]_vars

\* a live update changed the transformed object while the history has entries
C28_Witness ==
    /\ lastOp.op = "transform"
    /\ history # <<>>
    /\ FindObj(canvasObjects, lastOp.ids[1]) # FindObj(lastOp.before, lastOp.ids[1])

\* C29: a release that commits the values the object already has, so that
\* the scene is the same after it, records no entry: the history and the
\* history index are unchanged.
C29_ZeroDeltaRecordsNothing ==
    [][ (lastOp'.op \in {"dragEnd", "transformEnd"} /\ canvasObjects' = canvasObjects)
        => UNCHANGED <<history, historyIndex>> ]_vars

\* an object was grabbed and released where it was, after other actions
\* had been recorded
C29_Witness ==
    /\ lastOp.op = "dragEnd"
    /\ canvasObjects = lastOp.before
    /\ ~lastOp.rec
    /\ CanUndo

\* C30: addImagesInLayout of k urls appends k objects to the scene and one
\* add_batch entry holding them to the history; undo() of that entry leaves
\* none of the k objects in the scene or in the selection, and redo() of it
\* leaves all k in the scene.
C30_BatchIsOneTransition ==
    [][ /\ lastOp'.op = "add_batch"
            => /\ Len(lastOp'.ids) >= 2
               /\ Len(canvasObjects') = Len(canvasObjects) + Len(lastOp'.ids)
               /\ SubSeq(canvasObjects', 1, Len(canvasObjects)) = canvasObjects
               /\ IdSeq(SubSeq(canvasObjects', Len(canvasObjects) + 1, Len(canvasObjects')))
                     = lastOp'.ids
               /\ Len(history') = historyIndex + 2
               /\ historyIndex' = historyIndex + 1
               /\ history'[Len(history')] =
                     AddBatchAction(SubSeq(canvasObjects', Len(canvasObjects) + 1,
                                           Len(canvasObjects')))
        /\ (lastOp'.op = "undo" /\ CanUndo /\ UndoTarget.type = "add_batch")
            => /\ Ids(UndoTarget.objects) \cap Ids(canvasObjects') = {}
               /\ Ids(UndoTarget.objects) \cap Range(selectedIds') = {}
               /\ historyIndex' = historyIndex - 1
        /\ (lastOp'.op = "redo" /\ CanRedo /\ RedoTarget.type = "add_batch")
            => /\ Range(RedoTarget.objects) \subseteq Range(canvasObjects')
               /\ Len(canvasObjects') = Len(canvasObjects) + Len(RedoTarget.objects) ]_vars

\* a batch of two images was undone and redone: both images, absent before
\* the redo, are back in the scene
C30_Witness ==
    /\ lastOp.op = "redo" /\ CanUndo /\ UndoTarget.type = "add_batch"
    /\ Len(UndoTarget.objects) >= 2
    /\ Ids(UndoTarget.objects) \cap Ids(lastOp.before) = {}
    /\ Range(UndoTarget.objects) \subseteq Range(canvasObjects)

-----------------------------------------------------------------------------
(* Properties of the DOM canvas *)

\* a gesture of the DOM canvas is in progress
DomGestureActive ==
    isDragging \/ draggedImage # 0 \/ resizingImage # 0 \/ rotatingImage # 0

\* where and how the images are drawn, without their selection marks
Geometry(imgs) ==
    [i \in 1..Len(imgs) |->
        [id |-> imgs[i].id, x |-> imgs[i].x, y |-> imgs[i].y, width |-> imgs[i].width,
         height |-> imgs[i].height, rotation |-> imgs[i].rotation]]

\* C21: when the pointer leaves the canvas while a pan, drag, resize or
\* rotate is in progress, the gesture is over, every image that was there
\* before the gesture started is drawn as it was then, the pan offset is the
\* one from before the gesture, and the history is untouched.
C21_LeaveCancelsGesture ==
    [][ (lastOp'.op = "mouseLeave" /\ DomGestureActive)
        => /\ ~DomGestureActive'
           /\ SubSeq(Geometry(images'), 1, Len(gestureStart.images))
                 = Geometry(gestureStart.images)
           /\ position' = gestureStart.position
           /\ UNCHANGED <<history, historyIndex>> ]_vars

\* C23: when exportCanvas has encoded the canvas, every image has been
\* drawn on it, in the order of the images, and no draw is pending.
C23_ExportDrawsBeforeEncoding ==
    [][ lastOp'.op = "export"
        => /\ pendingDraws' = <<>>
           /\ exported' = <<[i \in 1..Len(images) |-> images[i].id]>> ]_vars

\* C26: a pointer move of a resize from a left handle leaves x + width of
\* the image as it was, and one from a top handle leaves y + height as it
\* was, so that the corner opposite the handle stays where it was when the
\* handle was grabbed.
C26_ResizeKeepsOppositeCorner ==
    [][ (/\ lastOp'.op = "mouseMove"
         /\ ~isDragging /\ draggedImage = 0
         /\ resizingImage \in ImageIds(images) /\ resizeHandle # "none")
        => LET was == FindImage(images, resizingImage)
               now == FindImage(images', resizingImage)
           IN /\ IncludesLeft(resizeHandle) => now.x + now.width = was.x + was.width
              /\ IncludesTop(resizeHandle) => now.y + now.height = was.y + was.height ]_vars

\* C27: a pointer move of a rotate with the pointer straight above the
\* centre of the image, where the rotate handle rests, sets the rotation to 0.
C27_RestingHandleIsZero ==
    [][ (/\ lastOp'.op = "mouseMove"
         /\ ~isDragging /\ draggedImage = 0
         /\ ~(resizingImage # 0 /\ resizeHandle # "none")
         /\ rotatingImage \in ImageIds(images)
         /\ pointer'.x = CenterOf(FindImage(images, rotatingImage)).x
         /\ pointer'.y < CenterOf(FindImage(images, rotatingImage)).y)
        => FindImage(images', rotatingImage).rotation = 0 ]_vars

-----------------------------------------------------------------------------
(* Properties of removal, nudging and layering *)

\* C31: a remove of an id that is not in the scene changes neither the scene
\* nor the selection (here: redo() of a recorded remove whose object is
\* already gone), and in every state removing an id twice gives the scene
\* that removing it once gives.
C31_RemoveAbsentIsNoOp ==
    [][ /\ (/\ lastOp'.op = "redo" /\ CanRedo /\ RedoTarget.type = "remove"
            /\ RedoTarget.objectId \notin Ids(canvasObjects))
           => (canvasObjects' = canvasObjects /\ selectedIds' = selectedIds)
        /\ \A id \in 1..MaxIds :
              ApplyAction(ApplyAction(canvasObjects', RemoveAction(id)), RemoveAction(id))
                 = ApplyAction(canvasObjects', RemoveAction(id)) ]_vars

\* a remove was redone on a non-empty scene that did not hold its object
C31_Witness ==
    /\ lastOp.op = "redo" /\ CanUndo /\ UndoTarget.type = "remove"
    /\ lastOp.before # <<>>
    /\ UndoTarget.objectId \notin Ids(lastOp.before)

\* C32: an arrow-key press with two or more objects selected moves every
\* selected object by the same step of 10 / zoom along one axis, and the
\* history holds, among the entries this key press recorded, an update of
\* each selected object with the position it had before the press.
C32_NudgeRecordsEveryObject ==
    [][ (lastOp'.op = "nudge" /\ Cardinality(Range(selectedIds)) >= 2
         /\ Cardinality(Ids(canvasObjects)) = Len(canvasObjects))
        => /\ \E d \in {[x |-> moveDistance, y |-> 0], [x |-> 0, y |-> -moveDistance]} :
                 \A id \in Range(selectedIds) :
                    /\ FindObj(canvasObjects', id).x = FindObj(canvasObjects, id).x + d.x
                    /\ FindObj(canvasObjects', id).y = FindObj(canvasObjects, id).y + d.y
           /\ \A id \in Range(selectedIds) :
                 \E i \in (historyIndex + 2)..Len(history') :
                    /\ history'[i].type = "update"
                    /\ history'[i].objectId = id
                    /\ \A k \in DOMAIN history'[i].prevProps :
                          history'[i].prevProps[k] = FindObj(canvasObjects, id)[k] ]_vars

\* C33: move-forward with several objects selected lifts every selected
\* object that has an unselected object above it over exactly one more
\* unselected object, whatever the order in which the objects were selected.
C33_ForwardLiftsEverySelected ==
    [][ (/\ lastOp'.op = "forward" /\ lastOp'.rec
         /\ Cardinality(Range(selectedIds)) >= 2
         /\ Cardinality(Ids(canvasObjects)) = Len(canvasObjects))
        => LET was == IdSeq(canvasObjects)
               now == IdSeq(canvasObjects')
               others == Range(was) \ Range(selectedIds)
               Below(order, id) ==
                   Cardinality({u \in others : IndexOf(order, u) < IndexOf(order, id)})
           IN \A s \in Range(selectedIds) :
                 Below(was, s) < Cardinality(others)
                    => Below(now, s) = Below(was, s) + 1 ]_vars

\* C34: after bring-to-front every selected object is above every unselected
\* one, after send-to-back below, and the selected objects among themselves
\* and the unselected objects among themselves are in the order they had
\* before the command.
C34_ExtremeKeepsRelativeOrder ==
    [][ (/\ lastOp'.op \in {"front", "back"} /\ lastOp'.rec
         /\ Cardinality(Ids(canvasObjects)) = Len(canvasObjects))
        => LET was == IdSeq(canvasObjects)
               now == IdSeq(canvasObjects')
               picked == Range(selectedIds)
               Of(order, S) == SelectSeq(order, LAMBDA id : id \in S)
           IN /\ Of(now, picked) = Of(was, picked)
              /\ Of(now, Range(was) \ picked) = Of(was, Range(was) \ picked)
              /\ \A s \in picked, u \in Range(was) \ picked :
                    IF lastOp'.op = "front"
                    THEN IndexOf(now, s) > IndexOf(now, u)
                    ELSE IndexOf(now, s) < IndexOf(now, u) ]_vars

-----------------------------------------------------------------------------
(* Properties of rendering *)

\* C35: in every state, every object of the scene whose bounding box
\* intersects the world rectangle the viewport shows is in the rendered
\* sequence.
C35_VisibleObjectsAreRendered ==
    LET shown == [minX |-> visibleBounds.minX + CULLING_BUFFER,
                  minY |-> visibleBounds.minY + CULLING_BUFFER,
                  maxX |-> visibleBounds.maxX - CULLING_BUFFER,
                  maxY |-> visibleBounds.maxY - CULLING_BUFFER]
    IN \A i \in 1..Len(canvasObjects) :
          isObjectVisible(canvasObjects[i], shown)
             => canvasObjects[i] \in Range(visibleObjects)

-----------------------------------------------------------------------------
(* Properties of the row layout and of the HistoryStack *)

\* C36: the images one call of addImagesRow adds lie left to right with a
\* gap of 40: each one's x is the x of the one before it plus that one's
\* width plus 40.
C36_RowKeepsGap ==
    [][ \A j \in (Len(rowImgs) + 1)..(Len(rowImgs') - 1) :
           rowImgs'[j + 1].x = rowImgs'[j].x + rowImgs'[j].width + GAP ]_vars

\* C40: with pushes that never exceed maxSize, followed by undos and then
\* redos, the k-th undo returns the state pushed k before the last one and
\* the j-th redo after k undos returns the state pushed k - j before the last
\* one; an undo with at most one stored state and a redo with an empty redo
\* stack return null and change neither stack.
C40_StackReturnsPushedStates ==
    [][ LET log == stackLog'
            n == Len(log.pushed)
        IN /\ (log.call = "undo" /\ Len(undoStack) <= 1)
                 => (returned' = <<>> /\ UNCHANGED <<undoStack, redoStack>>)
           /\ (log.call = "redo" /\ Len(redoStack) = 0)
                 => (returned' = <<>> /\ UNCHANGED <<undoStack, redoStack>>)
           /\ (log.call = "undo" /\ log.plain /\ Len(undoStack) > 1)
                 => returned' = <<log.pushed[n - log.undos]>>
           /\ (log.call = "redo" /\ log.plain /\ Len(redoStack) > 0)
                 => returned' = <<log.pushed[n - log.undos + log.redos]>> ]_vars

\* three states were pushed, two undos and two redos followed, and the last
\* redo returned the state pushed last
C40_Witness ==
    /\ stackLog.plain /\ stackLog.call = "redo"
    /\ Len(stackLog.pushed) = 3 /\ stackLog.undos = 2 /\ stackLog.redos = 2
    /\ returned = <<stackLog.pushed[3]>>

-----------------------------------------------------------------------------
(* Properties of the history index and of the zoom limits *)

\* C39: a wheel or pinch step taken at MIN_ZOOM or MAX_ZOOM that leaves the
\* zoom as it is leaves the pan offset as it is too.
C39_NoZoomNoPan ==
    [][ (/\ lastOp'.op \in {"wheel", "pinch"}
         /\ scale' = scale /\ zoom' = zoom
         /\ IF canvas = "DomCanvas" THEN zoom \in {MIN_ZOOM, MAX_ZOOM}
            ELSE scale \in {MIN_ZOOM, MAX_ZOOM})
        => (stagePos' = stagePos /\ position' = position) ]_vars

\* C37: the history index stays between -1 and the last position of the
\* history; undo() at index -1 and redo() at the last index change neither
\* the scene, the selection nor the history.
C37_IndexInRange ==
    [][ /\ -1 <= historyIndex' /\ historyIndex' <= Len(history') - 1
        /\ ((lastOp'.op = "undo" /\ historyIndex = -1)
            \/ (lastOp'.op = "redo" /\ historyIndex = Len(history) - 1))
           => UNCHANGED <<canvasObjects, selectedIds, history, historyIndex>> ]_vars

\* undo() was called with a recorded add below it and nothing left to undo:
\* the scene was empty before the call and the index is still -1
C37_Witness ==
    /\ lastOp.op = "undo" /\ historyIndex = -1
    /\ Len(history) >= 1 /\ history[1].type = "add"
    /\ lastOp.before = <<>> /\ canvasObjects = <<>>

\* C38: undo() that changed the scene, immediately followed by redo(), leaves
\* the scene that was there before the undo: the same objects with the same
\* properties in the same order.
C38_UndoThenRedo ==
    [][ (/\ lastOp.op = "undo" /\ lastOp'.op = "redo"
         /\ canvasObjects # lastOp.before)
        => canvasObjects' = lastOp.before ]_vars

====
